---- MODULE Spec2Model ----
(***************************************************************************)
(* Model of the packing engine of neta (src/src/packing.rs) and of the     *)
(* organize handler that drives it (src/src/ui.rs).                         *)
(*                                                                         *)
(* Numbers.  The code computes in f32.  The model computes on integers:    *)
(* one model unit is a quarter of a world unit, so the size 4.0 of         *)
(* tests::test_fill is 16 and a gap of 0.5 is 2.  The inputs are chosen so *)
(* that every value the code computes from them is a multiple of 0.25      *)
(* that f32 holds exactly; on them the f32 arithmetic of the code and the  *)
(* integer arithmetic of the model agree.  A gap of 0.1 is not such a      *)
(* value.  Lengths are only ever compared, so they are compared through    *)
(* their squares.                                                          *)
(***************************************************************************)
EXTENDS Integers, Sequences, FiniteSets, TLC

VARIABLES
    \* ---- one call of minkowski_sum, statement by statement
    mk_base_a, mk_base_b,   \* the polygons before divide
    mk_div,                 \* the subdivision applied to both inputs
    mk_a, mk_b,             \* the arguments a and b
    mk_i, mk_j,             \* let mut i, j
    mk_i_inc, mk_j_inc,     \* let mut i_inc, j_inc
    mk_cur,                 \* let mut cur
    mk_result,              \* let mut result (vertices pushed so far)
    mk_edges,               \* the returned EdgeVectors
    mk_pc,                  \* "entry" | "loop" | "returned"
    \* ---- one call of fill
    placed_shapes, shape_to_place, fill_offset, fill_div,
    fill_candidates,        \* the pool at the final sort (packing.rs:244)
    fill_result,            \* the returned ShapePosition
    fill_pc,                \* "call" | "returned" | "panicked"
    \* ---- on_organize_button_clicked
    org_sprites,            \* entity -> [size, translation]
    org_targets,            \* context_menu.target_frames
    org_shape_ids,          \* Vec<(Entity, ShapePosition)> still to place
    org_placed,             \* Vec<(Entity, ShapePosition)>
    org_div,                \* the subdivision handed to fill
    org_pc,                 \* "clicked" | "filling" | "done" | "panicked"
    \* ---- one ShapePosition under offset and is_overlapping
    sh_self, sh_other,      \* self and other
    sh_width,               \* the width handed to offset
    sh_before,              \* self before the latest offset
    sh_offsets,             \* the number of offset calls so far
    sh_overlap,             \* self.is_overlapping(&other)
    sh_overlap_rev,         \* other.is_overlapping(&self)
    sh_pc,                  \* "built" | "offset" | "tested"
    \* ---- vertices() and calculate_centroid with the rounding of f32
    vx_shape,               \* the ShapePosition
    vx_vertices,            \* self.vertices()
    vx_centroid,            \* calculate_centroid(&vertices)
    vx_pc,                  \* "built" | "vertices" | "centroid"
    \* ---- one run of the picking backend (pick_shape, pick_handle)
    pk_handles,             \* the handle_shapes query, in storage order
    pk_require_markers,     \* settings.require_markers
    pk_rays,                \* ray_map, in iteration order
    pk_sorted,              \* sorted_handles
    pk_ray,                 \* the ray the outer loop is at
    pk_k,                   \* the candidate the inner loop is at
    pk_picks,               \* picks of the current ray
    pk_output,              \* the PointerHits written so far
    pk_pc,                  \* "start" | "rays" | "candidates" | "write"
    \* ---- one call of the camera translator (to_control, to_main)
    cam_main,               \* the MainCamera entity
    cam_control,            \* the ControlCamera entity
    cam_transform,          \* the GlobalTransform handed in
    cam_result,             \* the returned Result<Transform>
    cam_pc,                 \* "call" | "to_control" | "to_main"
    \* ---- a World with one entity that may hold an Observe<E, B>
    ob_alive,               \* the entities of the World
    ob_component,           \* the Observe<E, B> of the entity, if any
    ob_observers,           \* the registered Observer components
    ob_next,                \* the next entity the World hands out
    ob_held,                \* the system of the Observe::new last inserted
    ob_before,              \* the Observe<E, B> before the latest operation
    ob_ran,                 \* the systems the latest trigger ran, in order
    ob_ops,                 \* the number of operations so far
    ob_pc,                  \* the latest operation on the entity
    \* ---- the run condition run_once_at(n)
    ro_n,                   \* n
    ro_count,               \* count: Local<u32>
    ro_overflow_checks,     \* whether the build checks arithmetic overflow
    ro_evals,               \* the number of evaluations so far
    ro_trues,               \* how many of them returned true
    ro_returned,            \* what the latest evaluation returned
    ro_steps,               \* the evaluations followed in this run
    ro_pc,                  \* "ready" | "evaluated" | "panicked"
    \* ---- the World around the control handle (canvas/handle.rs)
    ch_alive,               \* the entities of the World
    ch_handles,             \* the entities with a ControlHandle
    ch_children,            \* the corner and rotation children
    ch_current,             \* the CurrentControlHandle resource, if any
    ch_next,                \* the next entity the World hands out
    ch_before,              \* the ControlHandle named before the command
    ch_commands,            \* the number of commands applied so far
    ch_module,              \* the module in use: "handle" | "canvas::handle"
    ch_pc,                  \* the latest command
    \* ---- the gizmo command list (debug_gizmo.rs)
    gz_commands,            \* GIZMO_COMMANDS: the (timer, command) pairs
    gz_lock,                \* the thread holding the mutex, if any
    gz_pc,                  \* per thread: "idle" | "locked"
    gz_next,                \* the next command to be queued
    gz_before,              \* GIZMO_COMMANDS before the latest operation
    gz_delta,               \* time.delta() of the latest tick
    gz_executed,            \* the commands the latest tick executed
    gz_removed,             \* the commands removed so far
    gz_last                 \* the latest operation

mk_vars == <<mk_base_a, mk_base_b, mk_div, mk_a, mk_b, mk_i, mk_j, mk_i_inc,
             mk_j_inc, mk_cur, mk_result, mk_edges, mk_pc>>
fill_vars == <<placed_shapes, shape_to_place, fill_offset, fill_div,
               fill_candidates, fill_result, fill_pc>>
org_vars == <<org_sprites, org_targets, org_shape_ids, org_placed,
              org_div, org_pc>>
sh_vars == <<sh_self, sh_other, sh_width, sh_before, sh_offsets,
             sh_overlap, sh_overlap_rev, sh_pc>>
vx_vars == <<vx_shape, vx_vertices, vx_centroid, vx_pc>>
pk_vars == <<pk_handles, pk_require_markers, pk_rays, pk_sorted, pk_ray,
             pk_k, pk_picks, pk_output, pk_pc>>
cam_vars == <<cam_main, cam_control, cam_transform, cam_result, cam_pc>>
ro_vars == <<ro_n, ro_count, ro_overflow_checks, ro_evals, ro_trues,
             ro_returned, ro_steps, ro_pc>>
gz_vars == <<gz_commands, gz_lock, gz_pc, gz_next, gz_before, gz_delta,
             gz_executed, gz_removed, gz_last>>
ch_vars == <<ch_alive, ch_handles, ch_children, ch_current, ch_next,
             ch_before, ch_commands, ch_module, ch_pc>>
ob_vars == <<ob_alive, ob_component, ob_observers, ob_next, ob_held,
             ob_before, ob_ran, ob_ops, ob_pc>>
vars == <<mk_vars, fill_vars, org_vars, sh_vars, vx_vars, pk_vars, cam_vars,
          ob_vars, ro_vars, ch_vars, gz_vars>>

----------------------------------------------------------------------------
(* Bounds and units *)

\* most vertices the merge loop may push before the model stops following it
MaxPush == 18
\* most shapes selected when the organize button is clicked
MaxTargets == 3
\* most shapes already placed when fill is called directly
MaxPlaced == 2
\* most offset calls made on one shape
MaxOffsets == 2
\* most entities the handle query of the picking backend returns
MaxHandles == 4
\* most operations made on the entity that holds an Observe
MaxOps == 5
\* most evaluations of the run condition followed in one run
MaxEvals == 6
\* most control handle commands applied in one run
MaxCommands == 6
\* most gizmo commands queued in one run
MaxGizmos == 3

----------------------------------------------------------------------------
(* bevy::math::Vec2 *)

Abs(x) == IF x < 0 THEN -x ELSE x

\* f32 division rounds symmetrically about zero
Quot(x, n) == IF x >= 0 THEN x \div n ELSE -((-x) \div n)

\* a sequence given by a rule, held as the tuple of its elements (a Vec)
Collect(f) == SubSeq(f, 1, Len(f))

\* the elements of a sequence
Elements(q) == {q[k] : k \in 1..Len(q)}

ZERO == <<0, 0>>
VAdd(v, w) == <<v[1] + w[1], v[2] + w[2]>>
VSub(v, w) == <<v[1] - w[1], v[2] - w[2]>>
VNeg(v) == <<-v[1], -v[2]>>
VMul(v, k) == <<v[1] * k, v[2] * k>>
VDiv(v, n) == <<Quot(v[1], n), Quot(v[2], n)>>
dot(v, w) == v[1] * w[1] + v[2] * w[2]
perp(v) == <<-v[2], v[1]>>
perp_dot(v, w) == v[1] * w[2] - v[2] * w[1]
length_squared(v) == dot(v, v)

\* the length of v; v has at most |x| + |y| of it
length(v) ==
    LET bound == Abs(v[1]) + Abs(v[2])
    IN CHOOSE r \in 0..bound : r * r <= length_squared(v)
                               /\ (r + 1) * (r + 1) > length_squared(v)

\* v / |v| as the fraction n / d: the vector n over the length d
normalize(v) == [n |-> v, d |-> length(v)]

\* (p + q) * width for two unit vectors p and q given as fractions
NormalsTimes(p, q, width) ==
    VDiv(VMul(VAdd(VMul(p.n, q.d), VMul(q.n, p.d)), width), p.d * q.d)

\* (v - t).length() <= (w - t).length(), the order both sorts of fill use
NotFarther(v, w, t) ==
    length_squared(VSub(v, t)) <= length_squared(VSub(w, t))

----------------------------------------------------------------------------
(* EdgeVectors *)

\* Mat2::from_angle(rotation) * (size.x, 0) etc.; only rotation 0 is modelled,
\* where the matrix is the identity
with_rect_size_rotation(size, rotation) ==
    << <<size[1], 0>>, <<0, size[2]>>, <<-size[1], 0>>, <<0, -size[2]>> >>

from_vertices_open(vs) ==
    Collect([k \in 1..Len(vs) |->
                IF k = Len(vs) THEN ZERO ELSE VSub(vs[k + 1], vs[k])])

from_vertices(vs) ==
    Collect([k \in 1..Len(vs) |-> VSub(vs[(k % Len(vs)) + 1], vs[k])])

RECURSIVE SumTo(_, _)
SumTo(edges, k) == IF k = 0 THEN ZERO ELSE VAdd(SumTo(edges, k - 1), edges[k])

\* scan: the k-th vertex is the sum of the first k edges
local_vertices(edges) == Collect([k \in 1..Len(edges) |-> SumTo(edges, k)])

divide_whole(edges, n) ==
    Collect([k \in 1..(Len(edges) * n) |-> edges[((k - 1) \div n) + 1]])

divide(edges, n) ==
    Collect([k \in 1..(Len(edges) * n) |->
                VDiv(edges[((k - 1) \div n) + 1], n)])

calculate_centroid(vs) == VDiv(SumTo(vs, Len(vs)), Len(vs))

----------------------------------------------------------------------------
(* minkowski_sum *)

\* (y, x) of v is lexicographically below (y, x) of w
LexLess(v, w) == v[2] < w[2] \/ (v[2] = w[2] /\ v[1] < w[1])

get_first_index_max(vs) ==
    CHOOSE k \in 1..Len(vs) :
        /\ \A l \in 1..Len(vs) : ~LexLess(vs[k], vs[l])
        /\ \A l \in 1..(k - 1) : LexLess(vs[l], vs[k])

\* min_by keeps the first of several equal minima; indices are 1-based here
get_first_index(vs) ==
    CHOOSE k \in 1..Len(vs) :
        /\ \A l \in 1..Len(vs) : ~LexLess(vs[l], vs[k])
        /\ \A l \in 1..(k - 1) : LexLess(vs[k], vs[l])

\* (i + 1) % len on 1-based indices
NextIndex(i, len) == (i % len) + 1

\* the state of the merge loop
MinkEntryState(a, b) ==
    LET i == get_first_index(local_vertices(a))
        j == get_first_index(local_vertices(b))
    IN [i |-> i, j |-> j, i_inc |-> 0, j_inc |-> 0,
        cur |-> VAdd(a[i], b[j]), result |-> <<>>]

MinkLoopCond(a, b, s) == s.i_inc < Len(a) \/ s.j_inc < Len(b)

\* one iteration of the while loop
MinkIteration(a, b, s) ==
    LET cross == perp_dot(a[s.i], b[s.j])
        adv_a == cross >= 0 /\ s.i_inc < Len(a)
        adv_b == cross <= 0 /\ s.j_inc < Len(b)
        i2 == IF adv_a THEN NextIndex(s.i, Len(a)) ELSE s.i
        j2 == IF adv_b THEN NextIndex(s.j, Len(b)) ELSE s.j
        cur1 == IF adv_a THEN VAdd(s.cur, a[i2]) ELSE s.cur
        cur2 == IF adv_b THEN VAdd(cur1, b[j2]) ELSE cur1
    IN [i |-> i2, j |-> j2,
        i_inc |-> IF adv_a THEN s.i_inc + 1 ELSE s.i_inc,
        j_inc |-> IF adv_b THEN s.j_inc + 1 ELSE s.j_inc,
        cur |-> cur2, result |-> Append(s.result, s.cur)]

\* an iteration that consumes no edge repeats for ever
MinkStuck(a, b, s) ==
    LET cross == perp_dot(a[s.i], b[s.j])
    IN /\ MinkLoopCond(a, b, s)
       /\ ~(cross >= 0 /\ s.i_inc < Len(a))
       /\ ~(cross <= 0 /\ s.j_inc < Len(b))

RECURSIVE MinkRun(_, _, _)
MinkRun(a, b, s) ==
    IF ~MinkLoopCond(a, b, s) \/ MinkStuck(a, b, s)
    THEN s
    ELSE MinkRun(a, b, MinkIteration(a, b, s))

\* the call never returns on these arguments
MinkDiverges(a, b) ==
    LET s == MinkRun(a, b, MinkEntryState(a, b)) IN MinkStuck(a, b, s)

\* the value minkowski_sum returns when it returns
minkowski_sum(a, b) ==
    from_vertices(MinkRun(a, b, MinkEntryState(a, b)).result)

----------------------------------------------------------------------------
(* ShapePosition *)

ShapePosition(translation, edges) ==
    [translation |-> translation, edges |-> edges]

vertices(s) ==
    LET lv == local_vertices(s.edges)
        centroid == calculate_centroid(lv)
    IN Collect([k \in 1..Len(lv) |->
                   VSub(VAdd(lv[k], s.translation), centroid)])

\* -edge.perp().normalize()
OutwardNormal(edge) ==
    LET u == normalize(perp(edge)) IN [n |-> VNeg(u.n), d |-> u.d]

offset(s, width) ==
    LET vs == vertices(s)
        len == Len(s.edges)
        new_vertices ==
            Collect([i \in 1..len |->
                VAdd(vs[i],
                     NormalsTimes(OutwardNormal(s.edges[i]),
                                  OutwardNormal(s.edges[NextIndex(i, len)]),
                                  width))])
    IN [edges |-> from_vertices(new_vertices),
        translation |->
            VSub(s.translation,
                 VSub(calculate_centroid(new_vertices),
                      calculate_centroid(vs)))]

SeqMin(q) == CHOOSE x \in {q[k] : k \in 1..Len(q)} :
                 \A k \in 1..Len(q) : x <= q[k]
SeqMax(q) == CHOOSE x \in {q[k] : k \in 1..Len(q)} :
                 \A k \in 1..Len(q) : x >= q[k]

Separated_touching(va, vb, normal) ==
    LET pa == Collect([k \in 1..Len(va) |-> dot(va[k], normal)])
        pb == Collect([k \in 1..Len(vb) |-> dot(vb[k], normal)])
    IN SeqMax(pa) <= SeqMin(pb) \/ SeqMax(pb) <= SeqMin(pa)

\* the projections of self and other on normal are disjoint
Separated(va, vb, normal) ==
    LET pa == Collect([k \in 1..Len(va) |-> dot(va[k], normal)])
        pb == Collect([k \in 1..Len(vb) |-> dot(vb[k], normal)])
    IN SeqMax(pa) < SeqMin(pb) \/ SeqMax(pb) < SeqMin(pa)

is_overlapping_self_axes(self, other) ==
    LET normals ==
            Collect([k \in 1..Len(self.edges) |-> perp(self.edges[k])])
        va == vertices(self)
        vb == vertices(other)
    IN \A k \in 1..Len(normals) : ~Separated(va, vb, normals[k])

is_overlapping(self, other) ==
    LET normals ==
            Collect([k \in 1..Len(self.edges) |-> perp(self.edges[k])])
            \o Collect([k \in 1..Len(other.edges) |-> perp(other.edges[k])])
        va == vertices(self)
        vb == vertices(other)
    IN \A k \in 1..Len(normals) : ~Separated(va, vb, normals[k])

----------------------------------------------------------------------------
(* f32, for the claims that turn on its rounding.  A value is held as a    *)
(* whole number of steps of 2^-27; every f32 between 2^-4 and 16 in        *)
(* magnitude is one, and so is every sum of such values.                   *)

RECURSIVE Pow2(_)
Pow2(n) == IF n = 0 THEN 1 ELSE 2 * Pow2(n - 1)

\* a quarter of a world unit (the unit of the other parts) in steps
Quarter == Pow2(25)

\* x / d rounded to the nearest whole number, a tie to the even one
RoundHalfEven(x, d) ==
    LET q == Abs(x) \div d
        r == Abs(x) % d
        up == 2 * r > d \/ (2 * r = d /\ q % 2 = 1)
        m == IF up THEN q + 1 ELSE q
    IN IF x < 0 THEN -m ELSE m

\* the spacing of the f32 values round a value of magnitude a (24 bits)
UlpOf(a) ==
    IF a >= Pow2(30) THEN Pow2(7)
    ELSE Pow2(CHOOSE j \in 0..6 :
                  /\ a < Pow2(24 + j)
                  /\ (j = 0 \/ a >= Pow2(23 + j)))

\* the f32 nearest to x
Round32(x) == LET u == UlpOf(Abs(x)) IN RoundHalfEven(x, u) * u

\* the quotient x / n is a value the steps hold once rounded
DivOnGrid(x, n) == Abs(x) \div n >= Pow2(23) \/ x % n = 0

\* the f32 nearest to x / n
F32Div(x, n) ==
    IF Abs(x) \div n < Pow2(23)
    THEN Quot(x, n)
    ELSE LET u == UlpOf(Abs(x) \div n) IN RoundHalfEven(x, n * u) * u

FAdd(v, w) == <<Round32(v[1] + w[1]), Round32(v[2] + w[2])>>
FSub(v, w) == <<Round32(v[1] - w[1]), Round32(v[2] - w[2])>>
FDiv(v, n) == <<F32Div(v[1], n), F32Div(v[2], n)>>

\* the accumulator after k additions, each rounded
RECURSIVE FSumTo(_, _)
FSumTo(q, k) == IF k = 0 THEN ZERO ELSE FAdd(FSumTo(q, k - 1), q[k])

local_vertices_f32(edges) ==
    Collect([k \in 1..Len(edges) |-> FSumTo(edges, k)])

calculate_centroid_f32(vs) == FDiv(FSumTo(vs, Len(vs)), Len(vs))

vertices_f32_local(s) ==
    LET lv == local_vertices_f32(s.edges)
        centroid == calculate_centroid_f32(lv)
    IN Collect([k \in 1..Len(lv) |-> FSub(lv[k], centroid)])

vertices_f32(s) ==
    LET lv == local_vertices_f32(s.edges)
        centroid == calculate_centroid_f32(lv)
    IN Collect([k \in 1..Len(lv) |->
                   FSub(FAdd(lv[k], s.translation), centroid)])

----------------------------------------------------------------------------
(* fill *)

\* Option<u32>: <<>> is None, <<n>> is Some(n)
unwrap_or(opt, default) == IF opt = <<>> THEN default ELSE opt[1]

\* slice::sort_by is stable: q ordered by keys, ties in their order in q
StableSortBy(q, keys) ==
    LET len == Len(q)
        rank(k) == 1 + Cardinality({l \in 1..len :
                        \/ keys[l] < keys[k]
                        \/ (keys[l] = keys[k] /\ l < k)})
    IN Collect([p \in 1..len |-> q[CHOOSE k \in 1..len : rank(k) = p]])

\* sort_by(|v, w| (v - t).length().partial_cmp(&(w - t).length()))
SortByDistance(vs, t) ==
    StableSortBy(vs, Collect([k \in 1..Len(vs) |->
                                 length_squared(VSub(vs[k], t))]))

\* the vertices of the gap-offset no-fit polygon around placed, sorted
NfpVertices(placed, shape, width, div) ==
    LET nfp == minkowski_sum(placed.edges, shape.edges)
        nfp_shape == offset(ShapePosition(placed.translation,
                                          divide(nfp, unwrap_or(div, 1))),
                            width)
    IN SortByDistance(vertices(nfp_shape), shape.translation)

OffsetAll_none(placed_seq, width) == placed_seq

\* placed2.clone() after placed2.offset(offset), for every placed shape
OffsetAll(placed_seq, width) ==
    Collect([k \in 1..Len(placed_seq) |-> offset(placed_seq[k], width)])

FillInside_first_only(translated, grown) ==
    /\ grown # <<>>
    /\ is_overlapping(translated, grown[1])

\* the inner loop over placed2: translated overlaps a gap-offset placed shape
FillInside(translated, grown) ==
    \E k \in 1..Len(grown) : is_overlapping(translated, grown[k])

\* the candidates pushed while the outer loop visits placed_seq[1..k]
RECURSIVE FillPool(_, _, _, _, _)
FillPool(placed_seq, k, shape, width, div) ==
    IF k = 0 THEN <<>>
    ELSE LET nfp_vertices == NfpVertices(placed_seq[k], shape, width, div)
             grown == OffsetAll(placed_seq, width)
             translated ==
                 Collect([n \in 1..Len(nfp_vertices) |->
                             ShapePosition(nfp_vertices[n], shape.edges)])
         IN FillPool(placed_seq, k - 1, shape, width, div)
            \o SelectSeq(translated, LAMBDA c : ~FillInside(c, grown))

FillSortCandidates_unsorted(candidates, shape) == candidates

\* candidates.sort_by(...) on the distance of the translations
FillSortCandidates(candidates, shape) ==
    StableSortBy(candidates,
        Collect([k \in 1..Len(candidates) |->
                    length_squared(VSub(candidates[k].translation,
                                        shape.translation))]))

fill_fallback(placed_seq, shape, width, div) ==
    LET candidates ==
            FillSortCandidates(
                FillPool(placed_seq, Len(placed_seq), shape, width, div),
                shape)
    IN [pc |-> "returned", candidates |-> candidates,
        result |-> IF candidates = <<>> THEN shape ELSE candidates[1]]

\* swap_remove(0) panics on an empty Vec and returns element 0 otherwise
fill(placed_seq, shape, width, div) ==
    LET candidates ==
            FillSortCandidates(
                FillPool(placed_seq, Len(placed_seq), shape, width, div),
                shape)
    IN IF candidates = <<>>
       THEN [pc |-> "panicked", candidates |-> candidates, result |-> shape]
       ELSE [pc |-> "returned", candidates |-> candidates,
             result |-> candidates[1]]

----------------------------------------------------------------------------
(* the picking backend: pick_shape (canvas/picking.rs) and pick_handle     *)
(* (canvas/handle.rs), the same code but for settings.require_markers.     *)
(* Cameras look down the z axis, so a ray runs from its origin towards -z; *)
(* a handle is upright (its back axis is +z) or edge-on to the ray.        *)

\* Option<&RenderLayers>::unwrap_or_default(): layer 0 when absent
LayersOrDefault(opt) == IF opt = <<>> THEN {0} ELSE opt[1]

\* RenderLayers::intersects
intersects(a, b) == a \cap b # {}

\* the filter of sorted_handles
PickKeeps(h, require_markers) ==
    /\ ~h.is_nan
    /\ (~require_markers
        \/ (h.pickable # <<>> /\ h.pickable[1].is_hoverable))

\* the rows of the handle_shapes query: a handle with the entity that
\* carries it (its place in the query)
PickEntities(handles) ==
    Collect([k \in 1..Len(handles) |-> [entity |-> k, shape |-> handles[k]]])

SortFrontToBack_unsorted(rows) == rows

\* radsort::sort_by_key on -translation.z (a stable sort)
SortFrontToBack(rows) ==
    StableSortBy(rows,
        Collect([k \in 1..Len(rows) |-> -rows[k].shape.translation[3]]))

sorted_handles(handles, require_markers) ==
    SortFrontToBack(SelectSeq(PickEntities(handles),
                              LAMBDA e : PickKeeps(e.shape, require_markers)))

\* Ray3d::intersect_plane for a ray towards -z: the distance to the plane
\* of the handle, none when the plane is edge-on or not ahead of the origin
intersect_plane(ray, h) ==
    IF h.edge_on \/ ray.origin[3] - h.translation[3] <= 0
    THEN <<>>
    ELSE <<ray.origin[3] - h.translation[3]>>

\* the cursor in the coordinate system of the handle
cursor_pos_handle(ray, h) ==
    <<ray.origin[1] - h.translation[1], ray.origin[2] - h.translation[2]>>

\* cursor_pos_handle.length() < circle.0.radius, given an intersection
PickHit(ray, h) ==
    /\ intersect_plane(ray, h) # <<>>
    /\ length_squared(cursor_pos_handle(ray, h)) < h.radius * h.radius

PickBlocks_always(h) == TRUE

\* pickable.is_none_or(|p| p.should_block_lower)
PickBlocks(h) == h.pickable = <<>> \/ h.pickable[1].should_block_lower

PickLayersMeet_all(h, cam) == TRUE

\* render_layers.unwrap_or_default().intersects(camera_render_layers)
PickLayersMeet(h, cam) ==
    intersects(LayersOrDefault(h.render_layers),
               LayersOrDefault(cam.render_layers))

\* depth = -cam_ortho.near - hit_pos_cam.z
PickDepth(h, cam) == -cam.near - (h.translation[3] - cam.translation[3])

----------------------------------------------------------------------------
(* the camera translator (canvas/camera_util.rs).  Both cameras are the    *)
(* orthographic Camera2d of canvas/mod.rs, whose projection shows one      *)
(* world unit of the view per logical pixel, centred in the viewport.  A   *)
(* scale is held in quarters like a length, so 4 is the scale 1.0; a       *)
(* rotation is a number of quarter turns about the z axis.  The inputs are *)
(* chosen so that every product and quotient the code forms from them is   *)
(* such a value, which f32 holds exactly.                                  *)

\* Vec3::ONE
ONE == <<4, 4, 4>>

\* a * b for two values held in quarters
Times(a, b) == Quot(a * b, ONE[1])

extend_lifted(v, z) == <<v[1], v[2], z + ONE[3]>>

\* Vec2::extend
extend(v, z) == <<v[1], v[2], z>>

\* Vec3::truncate
truncate(v) == <<v[1], v[2]>>

Transform(translation, rotation, scale) ==
    [translation |-> translation, rotation |-> rotation, scale |-> scale]

\* the x axis of Mat3::from_quat(rotation); the y axis is its perp
RotationAxis(rotation) ==
    CASE rotation = 0 -> <<ONE[1], 0>>
      [] rotation = 1 -> <<0, ONE[1]>>
      [] rotation = 2 -> <<-ONE[1], 0>>
      [] rotation = 3 -> <<0, -ONE[1]>>

\* an Affine3A whose z axis stays the z axis: the x and y axes of matrix3
\* in the plane, the length of its z axis, and the translation
Affine(x_axis, y_axis, z_axis, translation) ==
    [x_axis |-> x_axis, y_axis |-> y_axis, z_axis |-> z_axis,
     translation |-> translation]

\* Transform::compute_affine: rotation * scale, then the translation
compute_affine(t) ==
    Affine(<<Times(RotationAxis(t.rotation)[1], t.scale[1]),
             Times(RotationAxis(t.rotation)[2], t.scale[1])>>,
           <<Times(perp(RotationAxis(t.rotation))[1], t.scale[2]),
             Times(perp(RotationAxis(t.rotation))[2], t.scale[2])>>,
           t.scale[3],
           t.translation)

\* matrix3 * v
transform_vector3(a, v) ==
    <<Times(a.x_axis[1], v[1]) + Times(a.y_axis[1], v[2]),
      Times(a.x_axis[2], v[1]) + Times(a.y_axis[2], v[2]),
      Times(a.z_axis, v[3])>>

\* Affine3A::transform_point3
transform_point3(a, p) ==
    LET v == transform_vector3(a, p)
    IN <<v[1] + a.translation[1], v[2] + a.translation[2],
         v[3] + a.translation[3]>>

\* Affine3A * Affine3A
AffineMul(a, b) ==
    Affine(truncate(transform_vector3(a, extend(b.x_axis, 0))),
           truncate(transform_vector3(a, extend(b.y_axis, 0))),
           Times(a.z_axis, b.z_axis),
           transform_point3(a, b.translation))

AffineInverse_same(a) == a

\* Affine3A::inverse: the inverse of matrix3 and the translation it sends
\* back to the origin
AffineInverse(a) ==
    LET det == perp_dot(a.x_axis, a.y_axis)
        unit == ONE[1] * ONE[2]
        inv == Affine(<<Quot(unit * a.y_axis[2], det),
                        Quot(-unit * a.x_axis[2], det)>>,
                      <<Quot(-unit * a.y_axis[1], det),
                        Quot(unit * a.x_axis[1], det)>>,
                      Quot(ONE[3] * ONE[3], a.z_axis),
                      <<0, 0, 0>>)
        back == transform_vector3(inv, a.translation)
    IN Affine(inv.x_axis, inv.y_axis, inv.z_axis,
              <<-back[1], -back[2], -back[3]>>)

\* Affine3A::to_scale_rotation_translation: the lengths of the axes, the
\* first negated when the determinant is negative, and the rotation left
\* when the axes are divided by them
to_scale_rotation_translation(a) ==
    LET det == perp_dot(a.x_axis, a.y_axis) * a.z_axis
        signum == IF det < 0 THEN -1 ELSE 1
        scale == <<length(a.x_axis) * signum, length(a.y_axis),
                   Abs(a.z_axis)>>
        rotation == CHOOSE q \in 0..3 :
                        /\ Times(RotationAxis(q)[1], scale[1]) = a.x_axis[1]
                        /\ Times(RotationAxis(q)[2], scale[1]) = a.x_axis[2]
    IN [scale |-> scale, rotation |-> rotation,
        translation |-> a.translation]

\* a camera entity: its Transform, the logical size of its viewport (none
\* before the window has one) and the planes of its OrthographicProjection
Camera(transform, viewport, near, far) ==
    [transform |-> transform, viewport |-> viewport,
     near |-> near, far |-> far]

\* TransformHelper::compute_global_transform of an entity without parent
compute_global_transform(camera) == compute_affine(camera.transform)

\* Camera::world_to_viewport: none without a viewport size or when the
\* point is past the near or the far plane; y runs down in the viewport
world_to_viewport(camera, camera_transform, world_position) ==
    IF camera.viewport = <<>>
    THEN <<>>
    ELSE LET view == transform_point3(AffineInverse(camera_transform),
                                      world_position)
             size == camera.viewport[1]
         IN IF -view[3] < camera.near \/ -view[3] > camera.far
            THEN <<>>
            ELSE << <<view[1] + Quot(size[1], 2),
                      Quot(size[2], 2) - view[2]>> >>

\* Camera::viewport_to_world_2d: the point of the near plane under the
\* viewport position, without its z
viewport_to_world_2d(camera, camera_transform, viewport_position) ==
    IF camera.viewport = <<>>
    THEN <<>>
    ELSE LET size == camera.viewport[1]
             view == <<viewport_position[1] - Quot(size[1], 2),
                       Quot(size[2], 2) - viewport_position[2],
                       -camera.near>>
         IN <<truncate(transform_point3(camera_transform, view))>>

\* CameraTranslator::to_control; none stands for Err
to_control(main_camera, control_camera, main_transform) ==
    LET main_camera_transform == compute_global_transform(main_camera)
        main_viewport ==
            world_to_viewport(main_camera, main_camera_transform,
                              main_transform.translation)
        control_camera_transform == compute_global_transform(control_camera)
    IN IF main_viewport = <<>>
       THEN <<>>
       ELSE LET translation ==
                    viewport_to_world_2d(control_camera,
                                         control_camera_transform,
                                         main_viewport[1])
                affine ==
                    AffineMul(AffineMul(main_transform,
                                        control_camera_transform),
                              AffineInverse(main_camera_transform))
                srt == to_scale_rotation_translation(affine)
            IN IF translation = <<>>
               THEN <<>>
               ELSE <<Transform(extend(translation[1], 0),
                                srt.rotation, srt.scale)>>

\* CameraTranslator::to_main; none stands for Err
to_main(main_camera, control_camera, control_transform) ==
    LET control_camera_transform == compute_global_transform(control_camera)
        control_viewport ==
            world_to_viewport(control_camera, control_camera_transform,
                              control_transform.translation)
        main_camera_transform == compute_global_transform(main_camera)
    IN IF control_viewport = <<>>
       THEN <<>>
       ELSE LET translation ==
                    viewport_to_world_2d(main_camera, main_camera_transform,
                                         control_viewport[1])
                affine ==
                    AffineMul(AffineMul(control_transform,
                                        main_camera_transform),
                              AffineInverse(control_camera_transform))
                srt == to_scale_rotation_translation(affine)
            IN IF translation = <<>>
               THEN <<>>
               ELSE <<Transform(extend(translation[1], 0),
                                srt.rotation, srt.scale)>>

----------------------------------------------------------------------------
(* Observe<E, B> and its component hooks (observe_component.rs), on a      *)
(* World with the entities alive, the Observe of the watched entity, the   *)
(* registered observers and the commands queued but not yet applied.       *)

World(alive, component, observers, next, queue) ==
    [alive |-> alive, component |-> component, observers |-> observers,
     next |-> next, queue |-> queue]

\* Observe::new(obs)
Added(system) == [variant |-> "Added", system |-> system]

\* Observe::Observed(id)
Observed(id) == [variant |-> "Observed", id |-> id]

\* Commands::queue
QueueCommand(w, command) == [w EXCEPT !.queue = Append(@, command)]

DespawnEntity_keep_observer(w, id) == [w EXCEPT !.alive = @ \ {id}]

\* EntityWorldMut::despawn of an observer entity: the entity goes, and the
\* on_remove hook of its Observer unregisters it
DespawnEntity(w, id) ==
    [w EXCEPT !.alive = @ \ {id},
              !.observers = {o \in @ : o.id # id}]

on_replace_observe_keep(w, entity) == w

\* on_replace_observe: queues the despawn of the observer the component
\* names
on_replace_observe(w, entity) ==
    LET observed == w.component[1]
    IN IF observed.variant # "Observed"
       THEN w
       ELSE QueueCommand(w, [kind |-> "despawn_observer",
                             entity |-> entity, obs_id |-> observed.id])

\* on_insert_observe: spawns an empty entity, leaves Observed(its id) in the
\* component, and queues the insertion of the Observer that watches the
\* entity, or the despawn of the empty entity when the component was not
\* Added
on_insert_observe(w, entity) ==
    LET obs_entity_id == w.next
        observe == w.component[1]
        spawned == [w EXCEPT !.next = @ + 1,
                             !.alive = @ \cup {obs_entity_id},
                             !.component = <<Observed(obs_entity_id)>>]
    IN IF observe.variant = "Added"
       THEN QueueCommand(spawned, [kind |-> "insert_observer",
                                   id |-> obs_entity_id,
                                   system |-> observe.system,
                                   entity |-> entity])
       ELSE QueueCommand(spawned, [kind |-> "despawn",
                                   id |-> obs_entity_id])

\* one queued command applied to the World
ApplyCommand(w, c) ==
    CASE c.kind = "despawn_observer" ->
            IF c.entity \notin w.alive
            THEN w
            ELSE IF c.obs_id \in w.alive
                 THEN DespawnEntity(w, c.obs_id)
                 ELSE w
      [] c.kind = "insert_observer" ->
            [w EXCEPT !.observers =
                 @ \cup {[id |-> c.id, system |-> c.system,
                          entity |-> c.entity]}]
      [] c.kind = "despawn" -> DespawnEntity(w, c.id)
      [] c.kind = "despawn_watchers" ->
            [w EXCEPT !.alive = @ \ {o.id : o \in {x \in w.observers :
                                                     x.entity = c.entity}},
                      !.observers = {o \in @ : o.entity # c.entity}]

\* World::flush: the queued commands applied in the order they were queued
RECURSIVE flush(_)
flush(w) ==
    IF w.queue = <<>>
    THEN w
    ELSE flush(ApplyCommand([w EXCEPT !.queue = Tail(@)], Head(w.queue)))

\* EntityWorldMut::insert of an Observe: on_replace of the old value if
\* there is one, the new value, on_insert, then the flush
insert(w, entity, observe) ==
    LET replaced == IF w.component = <<>>
                    THEN w
                    ELSE on_replace_observe(w, entity)
        inserted == [replaced EXCEPT !.component = <<observe>>]
    IN flush(on_insert_observe(inserted, entity))

\* EntityWorldMut::remove::<Observe<E, B>>: nothing when the entity has
\* none, else on_replace, the removal, then the flush
remove(w, entity) ==
    IF w.component = <<>>
    THEN w
    ELSE flush([on_replace_observe(w, entity) EXCEPT !.component = <<>>])

\* EntityWorldMut::despawn of the watched entity: on_replace of its Observe,
\* on_remove of its ObservedBy (which queues the despawn of the observers
\* that watch it alone), the entity gone, then the flush
despawn(w, entity) ==
    LET replaced == IF w.component = <<>>
                    THEN w
                    ELSE on_replace_observe(w, entity)
        unwatched == QueueCommand(replaced, [kind |-> "despawn_watchers",
                                             entity |-> entity])
    IN flush([unwatched EXCEPT !.component = <<>>,
                               !.alive = @ \ {entity}])

\* the ids of a set of observers in the order they were spawned
RECURSIVE InSpawnOrder(_)
InSpawnOrder(observers) ==
    IF observers = {}
    THEN <<>>
    ELSE LET first == CHOOSE o \in observers :
                          \A x \in observers : o.id <= x.id
         IN <<first>> \o InSpawnOrder(observers \ {first})

\* EntityWorldMut::trigger: the systems of the observers that watch the
\* entity, each run once
trigger(w, entity) ==
    LET watching == {o \in w.observers : o.entity = entity}
        order == InSpawnOrder(watching)
    IN Collect([k \in 1..Len(order) |-> order[k].system])

----------------------------------------------------------------------------
(* run_once_at (ui.rs).  A u32 is held as its two 16-bit halves <<high,    *)
(* low>>, since 2^32 - 1 is more than the checker's integers hold; the     *)
(* number of evaluations is held the same way with a high half that may    *)
(* go on past 16 bits.                                                     *)

\* u32::MAX and 0u32
U32_MAX == <<65535, 65535>>
U32_ZERO == <<0, 0>>

\* a < b
U32Less(a, b) == a[1] < b[1] \/ (a[1] = b[1] /\ a[2] < b[2])

\* a + 1, not confined to 32 bits
U32Succ(a) ==
    IF a[2] = U32_MAX[2] THEN <<a[1] + 1, 0>> ELSE <<a[1], a[2] + 1>>

\* a - 1 for a > 0
U32Pred(a) ==
    IF a[2] = 0 THEN <<a[1] - 1, U32_MAX[2]>> ELSE <<a[1], a[2] - 1>>

\* one evaluation of the closure of run_once_at(n) on its Local count: the
\* count afterwards and the value returned.  *count += 1 on u32::MAX
\* panics in a build with overflow checks (nothing is returned) and wraps
\* to 0 in a build without
run_once_at(n, count, overflow_checks) ==
    IF U32Less(n, count)
    THEN [count |-> count, returned |-> <<FALSE>>]
    ELSE IF count = U32_MAX
         THEN IF overflow_checks
              THEN [count |-> count, returned |-> <<>>]
              ELSE [count |-> U32_ZERO, returned |-> <<count = n>>]
         ELSE [count |-> U32Succ(count), returned |-> <<count = n>>]

----------------------------------------------------------------------------
(* the control handle commands (canvas/handle.rs) on a World with the      *)
(* entities alive, the ControlHandle entities with the sprite each relates *)
(* to, their corner and rotation children, the CurrentControlHandle        *)
(* resource and the commands queued but not yet applied.                   *)

HandleWorld(alive, handles, children, current, next, queue) ==
    [alive |-> alive, handles |-> handles, children |-> children,
     current |-> current, next |-> next, queue |-> queue, panicked |-> FALSE]

\* the pivots of the corner handles and of the rotation handle
CornerPivots == <<"TopLeft", "TopRight", "BottomLeft", "BottomRight">>
RotationPivots == <<"TopCenter">>

DespawnHandle_alone(w, id) ==
    [w EXCEPT !.alive = @ \ {id},
              !.handles = {h \in @ : h.id # id}]

\* world.entity_mut(id).despawn(): panics when the entity is not alive;
\* else the entity goes together with its children
DespawnHandle(w, id) ==
    IF id \notin w.alive
    THEN [w EXCEPT !.panicked = TRUE]
    ELSE [w EXCEPT !.alive = @ \ ({id} \cup {c.id : c \in {x \in w.children :
                                                            x.parent = id}}),
                   !.handles = {h \in @ : h.id # id},
                   !.children = {c \in @ : c.parent # id}]

\* the entities commands.spawn and parent.spawn reserve: the handle, then
\* a child for every pivot
HandleChildren(id) ==
    {[id |-> id + k, parent |-> id, kind |-> "corner",
      pivot |-> CornerPivots[k]] : k \in 1..Len(CornerPivots)}
    \cup {[id |-> id + Len(CornerPivots) + k, parent |-> id,
           kind |-> "rotation", pivot |-> RotationPivots[k]] :
              k \in 1..Len(RotationPivots)}

\* handle.rs: a ControlHandleCircle child for every anchor
HandleCircles(id) ==
    {[id |-> id + k, parent |-> id, kind |-> "circle",
      pivot |-> CornerPivots[k]] : k \in 1..Len(CornerPivots)}

\* one queued command applied to the World; a queued despawn of an entity
\* that is gone only logs a warning
HandleApply(w, c) ==
    CASE c.kind = "spawn" ->
            [w EXCEPT !.alive = @ \cup {c.id}
                                  \cup {x.id : x \in c.children},
                      !.handles = @ \cup {[id |-> c.id,
                                           sprite |-> c.sprite]},
                      !.children = @ \cup c.children]
      [] c.kind = "insert_resource" -> [w EXCEPT !.current = <<c.id>>]
      [] c.kind = "remove_resource" -> [w EXCEPT !.current = <<>>]
      [] c.kind = "despawn" ->
            IF c.id \in w.alive THEN DespawnHandle(w, c.id) ELSE w

\* World::flush: the queued commands applied in the order they were queued
RECURSIVE HandleFlush(_)
HandleFlush(w) ==
    IF w.queue = <<>>
    THEN w
    ELSE HandleFlush(HandleApply([w EXCEPT !.queue = Tail(@)],
                                 Head(w.queue)))

\* spawn_control_handle(sprite_id), then the flush of what it queued
spawn_control_handle(w, sprite_id) ==
    LET cleared == IF w.current # <<>>
                   THEN DespawnHandle(w, w.current[1])
                   ELSE w
        handle == cleared.next
        reserved == [cleared EXCEPT !.next = @ + 1 + Len(CornerPivots)
                                                 + Len(RotationPivots)]
        spawned == QueueCommand(reserved, [kind |-> "spawn", id |-> handle,
                                           sprite |-> sprite_id,
                                           children |->
                                               HandleChildren(handle)])
    IN IF cleared.panicked
       THEN cleared
       ELSE HandleFlush(QueueCommand(spawned, [kind |-> "insert_resource",
                                               id |-> handle]))

\* handle.rs: the commands to despawn the handle the resource names
despawn_current(w) ==
    IF w.current # <<>>
    THEN QueueCommand(QueueCommand(w, [kind |-> "despawn",
                                       id |-> w.current[1]]),
                      [kind |-> "remove_resource"])
    ELSE w

\* handle.rs: spawn_control_handle(parent) in a system run once, then the
\* flush of what it queued
handle_spawn_control_handle(w, parent) ==
    LET cleared == despawn_current(w)
        handle == cleared.next
        reserved == [cleared EXCEPT !.next = @ + 1 + Len(CornerPivots)]
        spawned == QueueCommand(reserved, [kind |-> "spawn", id |-> handle,
                                           sprite |-> parent,
                                           children |->
                                               HandleCircles(handle)])
    IN HandleFlush(QueueCommand(spawned, [kind |-> "insert_resource",
                                          id |-> handle]))

\* main.rs: a primary click on the window, then the flush
handle_click_window(w) == HandleFlush(despawn_current(w))

\* despawn_control_handle
despawn_control_handle(w) ==
    IF w.current # <<>>
    THEN LET despawned == DespawnHandle(w, w.current[1])
         IN IF despawned.panicked
            THEN despawned
            ELSE [despawned EXCEPT !.current = <<>>]
    ELSE w

----------------------------------------------------------------------------
(* the gizmo command list (debug_gizmo.rs); durations in seconds *)

GIZMO_TIMEOUT == 30

\* Timer::new(duration, TimerMode::Once)
Timer(duration) ==
    [duration |-> duration, elapsed |-> 0, finished |-> FALSE,
     times_finished_this_tick |-> 0]

\* Timer::tick of a TimerMode::Once timer: a finished timer stays as it is;
\* else the elapsed time advances and is clamped to the duration once it
\* reaches it
tick(timer, delta) ==
    IF timer.finished
    THEN [timer EXCEPT !.times_finished_this_tick = 0]
    ELSE LET elapsed == timer.elapsed + delta
         IN IF elapsed >= timer.duration
            THEN [timer EXCEPT !.elapsed = timer.duration,
                               !.finished = TRUE,
                               !.times_finished_this_tick = 1]
            ELSE [timer EXCEPT !.elapsed = elapsed,
                               !.times_finished_this_tick = 0]

just_finished(timer) == timer.times_finished_this_tick > 0

\* retain_mut with the command run before its timer is looked at
RECURSIVE retain_mut_late(_, _, _, _)
retain_mut_late(commands, delta, kept, executed) ==
    IF commands = <<>>
    THEN [commands |-> kept, executed |-> executed]
    ELSE LET ticked == tick(Head(commands)[1], delta)
         IN IF just_finished(ticked)
            THEN retain_mut_late(Tail(commands), delta, kept,
                                 Append(executed, Head(commands)[2]))
            ELSE retain_mut_late(Tail(commands), delta,
                                 Append(kept, <<ticked, Head(commands)[2]>>),
                                 Append(executed, Head(commands)[2]))

\* commands.retain_mut(..) of execute_gizmo_commands: in order, every timer
\* is ticked; a command whose timer just finished is dropped, any other is
\* run on the gizmos and kept
RECURSIVE retain_mut(_, _, _, _)
retain_mut(commands, delta, kept, executed) ==
    IF commands = <<>>
    THEN [commands |-> kept, executed |-> executed]
    ELSE LET ticked == tick(Head(commands)[1], delta)
         IN IF just_finished(ticked)
            THEN retain_mut(Tail(commands), delta, kept, executed)
            ELSE retain_mut(Tail(commands), delta,
                            Append(kept, <<ticked, Head(commands)[2]>>),
                            Append(executed, Head(commands)[2]))

\* execute_gizmo_commands on the locked list
execute_gizmo_commands(commands, delta) ==
    retain_mut(commands, delta, <<>>, <<>>)

\* debug_gizmo(command) on the locked list
debug_gizmo(commands, command) ==
    Append(commands, <<Timer(GIZMO_TIMEOUT), command>>)

----------------------------------------------------------------------------
(* Inputs *)

Rect(w, h) == with_rect_size_rotation(<<w, h>>, 0)

\* the polygons handed to minkowski_sum: rectangles of the tests and
\* triangles and a diamond built from their vertices
MinkPolygons ==
    { Rect(16, 12), Rect(8, 4), Rect(16, 16), Rect(8, 8),
      from_vertices(<< <<0, 0>>, <<8, 0>>, <<4, 4>> >>),
      from_vertices(<< <<0, 0>>, <<4, 0>>, <<4, 4>> >>),
      from_vertices(<< <<0, 0>>, <<-8, 8>>, <<-8, 4>> >>),
      from_vertices(<< <<0, 0>>, <<4, 4>>, <<0, 8>>, <<-4, 4>> >>) }

MinkDivs == {1, 2}

\* the shapes fill is called on (tests::test_fill and neighbours of them)
FillPlacedChoices ==
    { ShapePosition(<<0, 0>>, Rect(16, 16)),
      ShapePosition(<<14, 0>>, Rect(8, 8)),
      ShapePosition(<<0, 18>>, Rect(16, 8)),
      ShapePosition(<<24, 24>>, Rect(8, 16)) }

FillShapeChoices ==
    { ShapePosition(<<100, 100>>, Rect(8, 8)),
      ShapePosition(<<0, 0>>, Rect(40, 40)),
      ShapePosition(<<4, 0>>, Rect(8, 16)) }

\* gaps of 0.25 and 0.5
FillOffsets == {1, 2}
FillDivs == {<<>>, <<1>>, <<2>>}

\* the sprites a click on "organize" may find selected
SpriteChoices ==
    { [custom_size |-> <<16, 16>>, translation |-> <<0, 0>>],
      [custom_size |-> <<8, 8>>, translation |-> <<12, 4>>],
      [custom_size |-> <<8, 8>>, translation |-> <<100, 100>>],
      [custom_size |-> <<16, 8>>, translation |-> <<0, 0>>],
      [custom_size |-> <<40, 40>>, translation |-> <<0, 0>>] }

\* ui.rs hands fill no subdivision; it asks for 2 when it builds the shapes
OrganizeDivs == {<<>>, <<2>>}

SeqsUpTo(S, n) == UNION {[1..k -> S] : k \in 0..n}

----------------------------------------------------------------------------
(* Idle values of the parts a specification does not exercise *)

MinkIdle ==
    /\ mk_base_a = <<>> /\ mk_base_b = <<>> /\ mk_div = 1
    /\ mk_a = <<>> /\ mk_b = <<>>
    /\ mk_i = 0 /\ mk_j = 0 /\ mk_i_inc = 0 /\ mk_j_inc = 0
    /\ mk_cur = ZERO /\ mk_result = <<>> /\ mk_edges = <<>>
    /\ mk_pc = "idle"

FillIdle ==
    /\ placed_shapes = <<>>
    /\ shape_to_place = ShapePosition(ZERO, <<>>)
    /\ fill_offset = 0 /\ fill_div = <<>>
    /\ fill_candidates = <<>>
    /\ fill_result = ShapePosition(ZERO, <<>>)
    /\ fill_pc = "idle"

OrgIdle ==
    /\ org_sprites = <<>> /\ org_targets = <<>>
    /\ org_shape_ids = <<>> /\ org_placed = <<>>
    /\ org_div = <<>>
    /\ org_pc = "idle"

ShapeIdle ==
    /\ sh_self = ShapePosition(ZERO, <<>>)
    /\ sh_other = ShapePosition(ZERO, <<>>)
    /\ sh_before = ShapePosition(ZERO, <<>>)
    /\ sh_width = 0 /\ sh_offsets = 0
    /\ sh_overlap = FALSE /\ sh_overlap_rev = FALSE
    /\ sh_pc = "idle"

RoundIdle ==
    /\ vx_shape = ShapePosition(ZERO, <<>>)
    /\ vx_vertices = <<>> /\ vx_centroid = ZERO
    /\ vx_pc = "idle"

PickIdle ==
    /\ pk_handles = <<>> /\ pk_require_markers = FALSE /\ pk_rays = <<>>
    /\ pk_sorted = <<>> /\ pk_ray = 0 /\ pk_k = 0
    /\ pk_picks = <<>> /\ pk_output = <<>>
    /\ pk_pc = "idle"

CamIdle ==
    /\ cam_main = <<>> /\ cam_control = <<>>
    /\ cam_transform = <<>> /\ cam_result = <<>>
    /\ cam_pc = "idle"

RunOnceIdle ==
    /\ ro_n = U32_ZERO /\ ro_count = U32_ZERO
    /\ ro_overflow_checks = FALSE
    /\ ro_evals = U32_ZERO /\ ro_trues = 0
    /\ ro_returned = <<>> /\ ro_steps = 0
    /\ ro_pc = "idle"

GizmoIdle ==
    /\ gz_commands = <<>> /\ gz_lock = <<>> /\ gz_pc = <<>>
    /\ gz_next = 0 /\ gz_before = <<>> /\ gz_delta = 0
    /\ gz_executed = <<>> /\ gz_removed = {}
    /\ gz_last = "idle"

HandleIdle ==
    /\ ch_alive = {} /\ ch_handles = {} /\ ch_children = {}
    /\ ch_current = <<>> /\ ch_next = 0 /\ ch_before = <<>>
    /\ ch_commands = 0
    /\ ch_module = "none"
    /\ ch_pc = "idle"

ObserveIdle ==
    /\ ob_alive = {} /\ ob_component = <<>> /\ ob_observers = {}
    /\ ob_next = 0 /\ ob_held = <<>> /\ ob_before = <<>>
    /\ ob_ran = <<>> /\ ob_ops = 0
    /\ ob_pc = "idle"

----------------------------------------------------------------------------
(* minkowski_sum, one statement group at a time *)

MinkInit ==
    /\ mk_base_a \in MinkPolygons
    /\ mk_base_b \in MinkPolygons
    /\ mk_div \in MinkDivs
    /\ mk_a = divide(mk_base_a, mk_div)
    /\ mk_b = divide(mk_base_b, mk_div)
    /\ mk_i = 0 /\ mk_j = 0 /\ mk_i_inc = 0 /\ mk_j_inc = 0
    /\ mk_cur = ZERO /\ mk_result = <<>> /\ mk_edges = <<>>
    /\ mk_pc = "entry"
    /\ FillIdle /\ OrgIdle /\ ShapeIdle /\ RoundIdle /\ PickIdle
    /\ CamIdle
    /\ ObserveIdle
    /\ RunOnceIdle
    /\ HandleIdle
    /\ GizmoIdle

MinkState ==
    [i |-> mk_i, j |-> mk_j, i_inc |-> mk_i_inc, j_inc |-> mk_j_inc,
     cur |-> mk_cur, result |-> mk_result]

MinkSet(s) ==
    /\ mk_i' = s.i /\ mk_j' = s.j
    /\ mk_i_inc' = s.i_inc /\ mk_j_inc' = s.j_inc
    /\ mk_cur' = s.cur /\ mk_result' = s.result

\* packing.rs:74-82
MinkEnter ==
    /\ mk_pc = "entry"
    /\ MinkSet(MinkEntryState(mk_a, mk_b))
    /\ mk_pc' = "loop"
    /\ UNCHANGED <<mk_base_a, mk_base_b, mk_div, mk_a, mk_b, mk_edges>>
    /\ UNCHANGED <<fill_vars, org_vars, sh_vars, vx_vars, pk_vars, cam_vars,
                 ob_vars, ro_vars, ch_vars, gz_vars>>

\* packing.rs:85-103, one iteration
MinkLoop ==
    /\ mk_pc = "loop"
    /\ MinkLoopCond(mk_a, mk_b, MinkState)
    /\ Len(mk_result) < MaxPush
    /\ MinkSet(MinkIteration(mk_a, mk_b, MinkState))
    /\ UNCHANGED <<mk_base_a, mk_base_b, mk_div, mk_a, mk_b, mk_edges, mk_pc>>
    /\ UNCHANGED <<fill_vars, org_vars, sh_vars, vx_vars, pk_vars, cam_vars,
                 ob_vars, ro_vars, ch_vars, gz_vars>>

\* packing.rs:105
MinkReturn ==
    /\ mk_pc = "loop"
    /\ ~MinkLoopCond(mk_a, mk_b, MinkState)
    /\ mk_edges' = from_vertices(mk_result)
    /\ mk_pc' = "returned"
    /\ UNCHANGED <<mk_base_a, mk_base_b, mk_div, mk_a, mk_b, mk_i, mk_j,
                   mk_i_inc, mk_j_inc, mk_cur, mk_result>>
    /\ UNCHANGED <<fill_vars, org_vars, sh_vars, vx_vars, pk_vars, cam_vars,
                 ob_vars, ro_vars, ch_vars, gz_vars>>

MinkNext == MinkEnter \/ MinkLoop \/ MinkReturn

SpecMink == MinkInit /\ [][MinkNext]_vars

----------------------------------------------------------------------------
(* one call of fill *)

Init ==
    /\ placed_shapes \in SeqsUpTo(FillPlacedChoices, MaxPlaced)
    /\ shape_to_place \in FillShapeChoices
    /\ fill_offset \in FillOffsets
    /\ fill_div \in FillDivs
    /\ fill_candidates = <<>>
    /\ fill_result = ShapePosition(ZERO, <<>>)
    /\ fill_pc = "call"
    /\ MinkIdle /\ OrgIdle /\ ShapeIdle /\ RoundIdle /\ PickIdle
    /\ CamIdle
    /\ ObserveIdle
    /\ RunOnceIdle
    /\ HandleIdle
    /\ GizmoIdle

\* packing.rs:182-252
CallFill ==
    /\ fill_pc = "call"
    /\ LET r == fill(placed_shapes, shape_to_place, fill_offset, fill_div)
       IN /\ fill_pc' = r.pc
          /\ fill_candidates' = r.candidates
          /\ fill_result' = r.result
    /\ UNCHANGED <<placed_shapes, shape_to_place, fill_offset, fill_div>>
    /\ UNCHANGED <<mk_vars, org_vars, sh_vars, vx_vars, pk_vars, cam_vars,
                 ob_vars, ro_vars, ch_vars, gz_vars>>

Next == CallFill

Spec == Init /\ [][Next]_vars

----------------------------------------------------------------------------
(* on_organize_button_clicked *)

\* the gap 10.0 handed to fill, in model units
OrganizeGap == 40

OrgInit ==
    /\ org_sprites \in SeqsUpTo(SpriteChoices, MaxTargets)
    /\ org_targets = [k \in 1..Len(org_sprites) |-> k]
    /\ org_div \in OrganizeDivs
    /\ org_shape_ids = <<>>
    /\ org_placed = <<>>
    /\ org_pc = "clicked"
    /\ MinkIdle /\ FillIdle /\ ShapeIdle /\ RoundIdle /\ PickIdle
    /\ CamIdle
    /\ ObserveIdle
    /\ RunOnceIdle
    /\ HandleIdle
    /\ GizmoIdle

\* the shapes of the entities of a Vec<(Entity, ShapePosition)>
Shapes(pairs) == Collect([k \in 1..Len(pairs) |-> pairs[k][2]])

\* ui.rs:117-138: build the shapes, pop the seed
OrgBuild ==
    /\ org_pc = "clicked"
    /\ LET shape_ids ==
               Collect([k \in 1..Len(org_targets) |->
                   <<org_targets[k],
                     ShapePosition(
                         org_sprites[org_targets[k]].translation,
                         with_rect_size_rotation(
                             org_sprites[org_targets[k]].custom_size, 0))>>])
       IN IF shape_ids = <<>>
          THEN /\ org_pc' = "done"
               /\ UNCHANGED <<org_shape_ids, org_placed>>
          ELSE /\ org_placed' = <<shape_ids[Len(shape_ids)]>>
               /\ org_shape_ids' = SubSeq(shape_ids, 1, Len(shape_ids) - 1)
               /\ org_pc' = "filling"
    /\ UNCHANGED <<org_sprites, org_targets, org_div>>
    /\ UNCHANGED <<mk_vars, fill_vars, sh_vars, vx_vars, pk_vars, cam_vars,
                 ob_vars, ro_vars, ch_vars, gz_vars>>

\* ui.rs:140-147, one iteration
OrgFill ==
    /\ org_pc = "filling"
    /\ org_shape_ids # <<>>
    /\ LET target == Head(org_shape_ids)[1]
           shape == Head(org_shape_ids)[2]
           r == fill(Shapes(org_placed), shape, OrganizeGap, org_div)
       IN IF r.pc = "panicked"
          THEN /\ org_pc' = "panicked"
               /\ UNCHANGED <<org_shape_ids, org_placed>>
          ELSE /\ org_placed' = Append(org_placed, <<target, r.result>>)
               /\ org_shape_ids' = Tail(org_shape_ids)
               /\ UNCHANGED org_pc
    /\ UNCHANGED <<org_sprites, org_targets, org_div>>
    /\ UNCHANGED <<mk_vars, fill_vars, sh_vars, vx_vars, pk_vars, cam_vars,
                 ob_vars, ro_vars, ch_vars, gz_vars>>

\* ui.rs:149-152
OrgWriteBack ==
    /\ org_pc = "filling"
    /\ org_shape_ids = <<>>
    /\ org_sprites' =
          [e \in 1..Len(org_sprites) |->
              IF \E k \in 1..Len(org_placed) : org_placed[k][1] = e
              THEN [org_sprites[e] EXCEPT !.translation =
                       (LET k == CHOOSE k \in 1..Len(org_placed) :
                                    org_placed[k][1] = e
                        IN org_placed[k][2].translation)]
              ELSE org_sprites[e]]
    /\ org_pc' = "done"
    /\ UNCHANGED <<org_targets, org_shape_ids, org_placed, org_div>>
    /\ UNCHANGED <<mk_vars, fill_vars, sh_vars, vx_vars, pk_vars, cam_vars,
                 ob_vars, ro_vars, ch_vars, gz_vars>>

OrgNext == OrgBuild \/ OrgFill \/ OrgWriteBack

SpecOrganize == OrgInit /\ [][OrgNext]_vars

----------------------------------------------------------------------------
(* a ShapePosition under offset and is_overlapping *)

\* the right triangle with sides 3, 4 and 5, whose normals are rational
Triangle345 == from_vertices(<< <<0, 0>>, <<12, 0>>, <<0, 9>> >>)

\* a square standing on a corner
Diamond == from_vertices(<< <<0, 0>>, <<4, 4>>, <<0, 8>>, <<-4, 4>> >>)

\* the shapes of tests::test_is_overlapping, rectangles that touch them or
\* leave a gap, two polygons that are no rectangles, and an edge list that
\* does not close
ShapeChoices ==
    { ShapePosition(<<0, 0>>, Rect(16, 16)),
      ShapePosition(<<8, 8>>, Rect(16, 16)),
      ShapePosition(<<0, 22>>, Rect(16, 16)),
      ShapePosition(<<16, 0>>, Rect(16, 16)),
      ShapePosition(<<13, 0>>, Rect(8, 16)),
      ShapePosition(<<12, 11>>, Triangle345),
      ShapePosition(<<11, 11>>, Diamond),
      ShapePosition(<<4, 4>>, << <<16, 0>>, <<0, 8>> >>) }

\* widths of 0.25, 0.5 and 3.75
ShapeWidths == {1, 2, 15}

\* n divides every coordinate of v
Divides(n, v) == n # 0 /\ v[1] % n = 0 /\ v[2] % n = 0

\* the values offset computes on s and width are multiples of the model
\* unit: every edge has a whole length and every division comes out even
OffsetIsExact(s, width) ==
    LET len == Len(s.edges)
        lv == local_vertices(s.edges)
        whole(e) == length(e) > 0
                    /\ length(e) * length(e) = length_squared(e)
        vs == vertices(s)
        sum(i) == LET p == OutwardNormal(s.edges[i])
                      q == OutwardNormal(s.edges[NextIndex(i, len)])
                  IN [n |-> VMul(VAdd(VMul(p.n, q.d), VMul(q.n, p.d)), width),
                      d |-> p.d * q.d]
    IN /\ \A i \in 1..len : whole(s.edges[i])
       /\ Divides(len, SumTo(lv, len))
       /\ \A i \in 1..len : Divides(sum(i).d, sum(i).n)
       /\ LET new_vertices ==
                  Collect([i \in 1..len |->
                      VAdd(vs[i], VDiv(sum(i).n, sum(i).d))])
          IN Divides(len, SumTo(new_vertices, len))

ShapeInit ==
    /\ sh_self \in ShapeChoices
    /\ sh_other \in ShapeChoices
    /\ sh_width \in ShapeWidths
    /\ sh_before = sh_self
    /\ sh_offsets = 0
    /\ sh_overlap = FALSE /\ sh_overlap_rev = FALSE
    /\ sh_pc = "built"
    /\ MinkIdle /\ FillIdle /\ OrgIdle /\ RoundIdle /\ PickIdle
    /\ CamIdle
    /\ ObserveIdle
    /\ RunOnceIdle
    /\ HandleIdle
    /\ GizmoIdle

\* packing.rs:130-145, self.offset(width)
ShapeOffset ==
    /\ sh_pc \in {"built", "offset"}
    /\ sh_offsets < MaxOffsets
    /\ OffsetIsExact(sh_self, sh_width)
    /\ sh_before' = sh_self
    /\ sh_self' = offset(sh_self, sh_width)
    /\ sh_offsets' = sh_offsets + 1
    /\ sh_pc' = "offset"
    /\ UNCHANGED <<sh_other, sh_width, sh_overlap, sh_overlap_rev>>
    /\ UNCHANGED <<mk_vars, fill_vars, org_vars, vx_vars, pk_vars, cam_vars,
                 ob_vars, ro_vars, ch_vars, gz_vars>>

\* packing.rs:147-179, self.is_overlapping(&other) and the call the other
\* way round
ShapeOverlap ==
    /\ sh_pc \in {"built", "offset"}
    /\ sh_overlap' = is_overlapping(sh_self, sh_other)
    /\ sh_overlap_rev' = is_overlapping(sh_other, sh_self)
    /\ sh_pc' = "tested"
    /\ UNCHANGED <<sh_self, sh_other, sh_width, sh_before, sh_offsets>>
    /\ UNCHANGED <<mk_vars, fill_vars, org_vars, vx_vars, pk_vars, cam_vars,
                 ob_vars, ro_vars, ch_vars, gz_vars>>

ShapeNext == ShapeOffset \/ ShapeOverlap

SpecShape == ShapeInit /\ [][ShapeNext]_vars

----------------------------------------------------------------------------
(* vertices() followed by calculate_centroid, in f32 *)

\* edge lists in quarter units: closed and open, of 1 to 5 edges
RoundingEdgeLists ==
    { << <<-5, -5>>, <<0, -6>>, <<5, 7>> >>,
      << <<16, 0>>, <<0, 8>>, <<-16, 0>>, <<0, -8>> >>,
      << <<16, 0>>, <<0, 8>> >>,
      << <<4, -6>>, <<-4, 2>>, <<4, -3>>, <<4, 1>>, <<5, 5>> >>,
      << <<7, 0>>, <<0, -4>>, <<-6, -3>> >>,
      << <<3, 0>> >>,
      << <<12, 0>>, <<-12, 9>>, <<0, -9>> >> }

RoundingTranslations ==
    {<<x, y>> : x \in {-7, -1, 0, 3, 7}, y \in {-4, 0, 5}}

\* a shape given in quarter units, in steps
InSteps(t, edges) ==
    ShapePosition(VMul(t, Quarter),
                  Collect([k \in 1..Len(edges) |-> VMul(edges[k], Quarter)]))

\* both divisions by the vertex count give values the steps hold
OnGrid(s) ==
    LET lv == local_vertices_f32(s.edges)
        vs == vertices_f32(s)
        n == Len(s.edges)
        on(v) == DivOnGrid(v[1], n) /\ DivOnGrid(v[2], n)
    IN on(FSumTo(lv, n)) /\ on(FSumTo(vs, n))

RoundInit ==
    /\ vx_shape \in {s \in {InSteps(t, edges) : t \in RoundingTranslations,
                                               edges \in RoundingEdgeLists} :
                        OnGrid(s)}
    /\ vx_vertices = <<>> /\ vx_centroid = ZERO
    /\ vx_pc = "built"
    /\ MinkIdle /\ FillIdle /\ OrgIdle /\ ShapeIdle /\ PickIdle
    /\ CamIdle
    /\ ObserveIdle
    /\ RunOnceIdle
    /\ HandleIdle
    /\ GizmoIdle

\* packing.rs:115-128
RoundVertices ==
    /\ vx_pc = "built"
    /\ vx_vertices' = vertices_f32(vx_shape)
    /\ vx_pc' = "vertices"
    /\ UNCHANGED <<vx_shape, vx_centroid>>
    /\ UNCHANGED <<mk_vars, fill_vars, org_vars, sh_vars, pk_vars, cam_vars,
                 ob_vars, ro_vars, ch_vars, gz_vars>>

\* packing.rs:254-260 on the vertices returned
RoundCentroid ==
    /\ vx_pc = "vertices"
    /\ vx_centroid' = calculate_centroid_f32(vx_vertices)
    /\ vx_pc' = "centroid"
    /\ UNCHANGED <<vx_shape, vx_vertices>>
    /\ UNCHANGED <<mk_vars, fill_vars, org_vars, sh_vars, pk_vars, cam_vars,
                 ob_vars, ro_vars, ch_vars, gz_vars>>

RoundNext == RoundVertices \/ RoundCentroid

SpecRound == RoundInit /\ [][RoundNext]_vars

----------------------------------------------------------------------------
(* one run of the picking backend *)

Pickable(should_block_lower, is_hoverable) ==
    <<[should_block_lower |-> should_block_lower,
       is_hoverable |-> is_hoverable]>>

Handle(translation, radius, pickable, render_layers) ==
    [translation |-> translation, radius |-> radius, pickable |-> pickable,
     render_layers |-> render_layers, edge_on |-> FALSE, is_nan |-> FALSE]

\* handles in front of and behind each other, blocking and not, on either
\* layer, one edge-on, one behind the ray origin, one with a NaN transform
\* and one whose rim the second cursor position touches
HandleChoices ==
    { Handle(<<0, 0, 2>>, 2, Pickable(FALSE, TRUE), <<>>),
      Handle(<<0, 0, 1>>, 2, <<>>, <<>>),
      Handle(<<1, 0, 1>>, 4, Pickable(TRUE, TRUE), <<{1}>>),
      Handle(<<0, 0, 0>>, 5, Pickable(FALSE, FALSE), <<{0, 1}>>),
      [Handle(<<0, 0, 3>>, 5, <<>>, <<>>) EXCEPT !.edge_on = TRUE],
      Handle(<<0, 0, 12>>, 5, Pickable(TRUE, TRUE), <<>>),
      [Handle(<<0, 0, 4>>, 5, <<>>, <<>>) EXCEPT !.is_nan = TRUE],
      Handle(<<2, 0, 1>>, 1, <<>>, <<>>) }

\* the cameras query: entity -> camera; entity 3 has a perspective
\* projection and entity 4 is no camera
PickCameras ==
    [c \in {1, 2, 3} |->
        [orthographic |-> c # 3,
         render_layers |-> IF c = 2 THEN <<{1}>> ELSE <<>>,
         translation |-> <<0, 0, 0>>,
         near |-> -10,
         order |-> c - 1]]

PickRay(camera, pointer, x, y) ==
    [camera |-> camera, pointer |-> pointer,
     origin |-> <<x, y, PickCameras[1].translation[3] - PickCameras[1].near>>]

\* the ray maps of a frame
PickRayMaps ==
    { << PickRay(1, 1, 0, 0), PickRay(2, 1, 0, 0) >>,
      << PickRay(3, 1, 0, 0), PickRay(1, 1, 3, 0) >>,
      << PickRay(4, 1, 0, 0), PickRay(2, 2, 3, 0) >> }

PickInit ==
    /\ pk_handles \in SeqsUpTo(HandleChoices, MaxHandles)
    /\ pk_require_markers \in BOOLEAN
    /\ pk_rays \in PickRayMaps
    /\ pk_sorted = <<>> /\ pk_ray = 0 /\ pk_k = 0
    /\ pk_picks = <<>> /\ pk_output = <<>>
    /\ pk_pc = "start"
    /\ MinkIdle /\ FillIdle /\ OrgIdle /\ ShapeIdle /\ RoundIdle
    /\ CamIdle
    /\ ObserveIdle
    /\ RunOnceIdle
    /\ HandleIdle
    /\ GizmoIdle

\* picking.rs:42-51
PickSort ==
    /\ pk_pc = "start"
    /\ pk_sorted' = sorted_handles(pk_handles, pk_require_markers)
    /\ pk_ray' = 1
    /\ pk_pc' = "rays"
    /\ UNCHANGED <<pk_handles, pk_require_markers, pk_rays, pk_k, pk_picks,
                   pk_output>>
    /\ UNCHANGED <<mk_vars, fill_vars, org_vars, sh_vars, vx_vars, cam_vars,
                 ob_vars, ro_vars, ch_vars, gz_vars>>

\* cameras.get(ray_id.camera) gives an orthographic camera
PickCameraOk(ray) ==
    ray.camera \in DOMAIN PickCameras /\ PickCameras[ray.camera].orthographic

\* picking.rs:53-67, a ray whose camera is found
PickBeginRay ==
    /\ pk_pc = "rays"
    /\ pk_ray <= Len(pk_rays)
    /\ PickCameraOk(pk_rays[pk_ray])
    /\ pk_picks' = <<>>
    /\ pk_k' = 1
    /\ pk_pc' = "candidates"
    /\ UNCHANGED <<pk_handles, pk_require_markers, pk_rays, pk_sorted, pk_ray,
                   pk_output>>
    /\ UNCHANGED <<mk_vars, fill_vars, org_vars, sh_vars, vx_vars, cam_vars,
                 ob_vars, ro_vars, ch_vars, gz_vars>>

\* picking.rs:61-63, continue
PickSkipRay ==
    /\ pk_pc = "rays"
    /\ pk_ray <= Len(pk_rays)
    /\ ~PickCameraOk(pk_rays[pk_ray])
    /\ pk_ray' = pk_ray + 1
    /\ UNCHANGED <<pk_handles, pk_require_markers, pk_rays, pk_sorted, pk_k,
                   pk_picks, pk_output, pk_pc>>
    /\ UNCHANGED <<mk_vars, fill_vars, org_vars, sh_vars, vx_vars, cam_vars,
                 ob_vars, ro_vars, ch_vars, gz_vars>>

\* picking.rs:69-120, one candidate
PickExamine ==
    /\ pk_pc = "candidates"
    /\ pk_k <= Len(pk_sorted)
    /\ LET ray == pk_rays[pk_ray]
           cam == PickCameras[ray.camera]
           e == pk_sorted[pk_k]
           h == e.shape
       IN IF ~PickLayersMeet(h, cam) \/ ~PickHit(ray, h)
          THEN /\ pk_k' = pk_k + 1
               /\ UNCHANGED <<pk_picks, pk_pc>>
          ELSE /\ pk_picks' = Append(pk_picks,
                      [entity |-> e.entity, camera |-> ray.camera,
                       depth |-> PickDepth(h, cam),
                       position |-> <<ray.origin[1], ray.origin[2],
                                      h.translation[3]>>])
               /\ IF PickBlocks(h)
                  THEN pk_pc' = "write" /\ UNCHANGED pk_k
                  ELSE pk_k' = pk_k + 1 /\ UNCHANGED pk_pc
    /\ UNCHANGED <<pk_handles, pk_require_markers, pk_rays, pk_sorted, pk_ray,
                   pk_output>>
    /\ UNCHANGED <<mk_vars, fill_vars, org_vars, sh_vars, vx_vars, cam_vars,
                 ob_vars, ro_vars, ch_vars, gz_vars>>

\* picking.rs:122-123
PickWrite ==
    /\ \/ pk_pc = "write"
       \/ pk_pc = "candidates" /\ pk_k > Len(pk_sorted)
    /\ pk_output' = Append(pk_output,
          [pointer |-> pk_rays[pk_ray].pointer,
           ray |-> pk_ray,
           picks |-> pk_picks,
           order |-> PickCameras[pk_rays[pk_ray].camera].order])
    /\ pk_ray' = pk_ray + 1
    /\ pk_pc' = "rays"
    /\ UNCHANGED <<pk_handles, pk_require_markers, pk_rays, pk_sorted, pk_k,
                   pk_picks>>
    /\ UNCHANGED <<mk_vars, fill_vars, org_vars, sh_vars, vx_vars, cam_vars,
                 ob_vars, ro_vars, ch_vars, gz_vars>>

PickNext ==
    PickSort \/ PickBeginRay \/ PickSkipRay \/ PickExamine \/ PickWrite

SpecPick == PickInit /\ [][PickNext]_vars

----------------------------------------------------------------------------
(* one call of the camera translator *)

\* the Transform of a camera: panned by drag_with_middle_mouse_button,
\* scaled in x and y by zoom_with_mouse_wheel, and possibly off the z = 0
\* plane
CameraTransforms ==
    { Transform(t, 0, s) :
        t \in { <<0, 0, 0>>, <<16, -8, 0>>, <<0, 0, 8>> },
        s \in { <<2, 2, 4>>, ONE, <<8, 8, 4>> } }

\* a Camera2d: its planes are those of OrthographicProjection::default_2d,
\* its viewport that of the window once the window has a size
CameraChoices ==
    { Camera(t, v, -4000, 4000) :
        t \in CameraTransforms, v \in { <<>>, << <<4096, 2048>> >> } }

\* the GlobalTransform of a sprite or a handle; the last translation is
\* past the far plane of every camera
TransformChoices ==
    { compute_affine(Transform(t, r, s)) :
        t \in { <<0, 0, 0>>, <<24, 8, 4>>, <<-8, 16, -12>>, <<8, 8, -4800>> },
        r \in 0..3,
        s \in { ONE, <<8, 4, 4>>, <<-4, 4, 4>>, <<12, 12, 4>> } }

CamInit ==
    /\ cam_main \in CameraChoices
    /\ cam_control \in CameraChoices
    /\ cam_transform \in TransformChoices
    /\ cam_result = <<>>
    /\ cam_pc = "call"
    /\ MinkIdle /\ FillIdle /\ OrgIdle /\ ShapeIdle /\ RoundIdle
    /\ PickIdle
    /\ ObserveIdle
    /\ RunOnceIdle
    /\ HandleIdle
    /\ GizmoIdle

\* camera_translator.to_control(transform)
CamToControl ==
    /\ cam_pc = "call"
    /\ cam_result' = to_control(cam_main, cam_control, cam_transform)
    /\ cam_pc' = "to_control"
    /\ UNCHANGED <<cam_main, cam_control, cam_transform>>
    /\ UNCHANGED <<mk_vars, fill_vars, org_vars, sh_vars, vx_vars, pk_vars,
                 ob_vars, ro_vars, ch_vars, gz_vars>>

\* camera_translator.to_main(transform)
CamToMain ==
    /\ cam_pc = "call"
    /\ cam_result' = to_main(cam_main, cam_control, cam_transform)
    /\ cam_pc' = "to_main"
    /\ UNCHANGED <<cam_main, cam_control, cam_transform>>
    /\ UNCHANGED <<mk_vars, fill_vars, org_vars, sh_vars, vx_vars, pk_vars,
                 ob_vars, ro_vars, ch_vars, gz_vars>>

CamNext == CamToControl \/ CamToMain

SpecCamera == CamInit /\ [][CamNext]_vars

----------------------------------------------------------------------------
(* operations on an entity that may hold an Observe<TestEvent, ()> *)

\* the entity of tests::test_observe_component_addition
Watched == 1

\* observer_system and observer_system2 of the test
ObserverSystems == {"observer_system", "observer_system2"}

ObserveWorld == World(ob_alive, ob_component, ob_observers, ob_next, <<>>)

ObserveSet(w) ==
    /\ ob_alive' = w.alive
    /\ ob_component' = w.component
    /\ ob_observers' = w.observers
    /\ ob_next' = w.next
    /\ ob_before' = ob_component
    /\ ob_ops' = ob_ops + 1

\* let mut world = World::new() and an entity spawned without an Observe
ObserveInit ==
    /\ ob_alive = {Watched} /\ ob_component = <<>> /\ ob_observers = {}
    /\ ob_next = Watched + 1
    /\ ob_held = <<>> /\ ob_before = <<>> /\ ob_ran = <<>>
    /\ ob_ops = 0
    /\ ob_pc = "spawned"
    /\ MinkIdle /\ FillIdle /\ OrgIdle /\ ShapeIdle /\ RoundIdle
    /\ PickIdle /\ CamIdle
    /\ RunOnceIdle
    /\ HandleIdle
    /\ GizmoIdle

ObserveLive == Watched \in ob_alive /\ ob_ops < MaxOps

\* world.entity_mut(entity).insert(Observe::new(system))
ObserveInsert ==
    /\ ObserveLive
    /\ \E system \in ObserverSystems :
           /\ ObserveSet(insert(ObserveWorld, Watched, Added(system)))
           /\ ob_held' = <<system>>
    /\ ob_pc' = "inserted"
    /\ UNCHANGED ob_ran
    /\ UNCHANGED <<mk_vars, fill_vars, org_vars, sh_vars, vx_vars, pk_vars,
                 cam_vars, ro_vars, ch_vars, gz_vars>>

\* world.entity_mut(entity).insert(Observe::Observed(id)), the component
\* that on_insert_observe reports as invalid
ObserveInsertObserved ==
    /\ ObserveLive
    /\ \E id \in 1..(ob_next - 1) :
           ObserveSet(insert(ObserveWorld, Watched, Observed(id)))
    /\ ob_held' = <<>>
    /\ ob_pc' = "invalid"
    /\ UNCHANGED ob_ran
    /\ UNCHANGED <<mk_vars, fill_vars, org_vars, sh_vars, vx_vars, pk_vars,
                 cam_vars, ro_vars, ch_vars, gz_vars>>

\* world.entity_mut(entity).remove::<Observe<TestEvent, ()>>()
ObserveRemove ==
    /\ ObserveLive
    /\ ObserveSet(remove(ObserveWorld, Watched))
    /\ ob_held' = <<>>
    /\ ob_pc' = "removed"
    /\ UNCHANGED ob_ran
    /\ UNCHANGED <<mk_vars, fill_vars, org_vars, sh_vars, vx_vars, pk_vars,
                 cam_vars, ro_vars, ch_vars, gz_vars>>

\* world.entity_mut(entity).trigger(TestEvent)
ObserveTrigger ==
    /\ ObserveLive
    /\ ob_ran' = trigger(ObserveWorld, Watched)
    /\ ob_ops' = ob_ops + 1
    /\ ob_pc' = "triggered"
    /\ UNCHANGED <<ob_alive, ob_component, ob_observers, ob_next, ob_held,
                   ob_before>>
    /\ UNCHANGED <<mk_vars, fill_vars, org_vars, sh_vars, vx_vars, pk_vars,
                 cam_vars, ro_vars, ch_vars, gz_vars>>

\* world.entity_mut(entity).despawn()
ObserveDespawn ==
    /\ ObserveLive
    /\ ObserveSet(despawn(ObserveWorld, Watched))
    /\ ob_held' = <<>>
    /\ ob_pc' = "despawned"
    /\ UNCHANGED ob_ran
    /\ UNCHANGED <<mk_vars, fill_vars, org_vars, sh_vars, vx_vars, pk_vars,
                 cam_vars, ro_vars, ch_vars, gz_vars>>

ObserveNext ==
    \/ ObserveInsert \/ ObserveInsertObserved \/ ObserveRemove
    \/ ObserveTrigger \/ ObserveDespawn

SpecObserve == ObserveInit /\ [][ObserveNext]_vars

----------------------------------------------------------------------------
(* a system gated by run_if(run_once_at(n)), one evaluation per frame *)

\* the first values of a u32 and the last
RunOnceChoices ==
    { U32_ZERO, U32Succ(U32_ZERO), U32Succ(U32Succ(U32_ZERO)),
      U32Pred(U32Pred(U32_MAX)), U32Pred(U32_MAX), U32_MAX }

\* the states before the evaluation with index n: after k <= n evaluations
\* the count is k and none has returned true.  A run is followed from the
\* first evaluation or from one of the last two before index n
RunOnceStarts(n) ==
    {U32_ZERO, n}
        \cup (IF n # U32_ZERO THEN {U32Pred(n)} ELSE {})
        \cup (IF U32Less(U32Succ(U32_ZERO), n)
              THEN {U32Pred(U32Pred(n))}
              ELSE {})

RunOnceInit ==
    /\ ro_n \in RunOnceChoices
    /\ ro_count \in RunOnceStarts(ro_n)
    /\ ro_evals = ro_count
    /\ ro_overflow_checks \in BOOLEAN
    /\ ro_trues = 0
    /\ ro_returned = <<>>
    /\ ro_steps = 0
    /\ ro_pc = "ready"
    /\ MinkIdle /\ FillIdle /\ OrgIdle /\ ShapeIdle /\ RoundIdle
    /\ PickIdle /\ CamIdle /\ ObserveIdle
    /\ HandleIdle
    /\ GizmoIdle

\* the schedule evaluates the condition once
RunOnceEvaluate ==
    /\ ro_pc \in {"ready", "evaluated"}
    /\ ro_steps < MaxEvals
    /\ LET after == run_once_at(ro_n, ro_count, ro_overflow_checks)
       IN /\ ro_count' = after.count
          /\ ro_returned' = after.returned
          /\ ro_trues' = IF after.returned = <<TRUE>>
                         THEN ro_trues + 1
                         ELSE ro_trues
          /\ ro_pc' = IF after.returned = <<>>
                      THEN "panicked"
                      ELSE "evaluated"
    /\ ro_evals' = U32Succ(ro_evals)
    /\ ro_steps' = ro_steps + 1
    /\ UNCHANGED <<ro_n, ro_overflow_checks>>
    /\ UNCHANGED <<mk_vars, fill_vars, org_vars, sh_vars, vx_vars, pk_vars,
                 cam_vars, ob_vars, ch_vars, gz_vars>>

RunOnceNext == RunOnceEvaluate

SpecRunOnce == RunOnceInit /\ [][RunOnceNext]_vars

----------------------------------------------------------------------------
(* control handle commands applied one after the other *)

\* the sprites a click may land on
HandleSprites == {1, 2}

HandleState ==
    HandleWorld(ch_alive, ch_handles, ch_children, ch_current, ch_next, <<>>)

\* the ControlHandle the resource names
HandleNamed ==
    IF ch_current = <<>>
    THEN <<>>
    ELSE LET named == {h \in ch_handles : h.id = ch_current[1]}
         IN IF named = {} THEN <<>> ELSE <<CHOOSE h \in named : TRUE>>

HandleSet(w) ==
    /\ ch_alive' = w.alive
    /\ ch_handles' = w.handles
    /\ ch_children' = w.children
    /\ ch_current' = w.current
    /\ ch_next' = w.next
    /\ ch_before' = HandleNamed
    /\ ch_commands' = ch_commands + 1
    /\ UNCHANGED ch_module

\* the sprites are spawned and no handle is
HandleInit ==
    /\ ch_alive = HandleSprites /\ ch_handles = {} /\ ch_children = {}
    /\ ch_current = <<>>
    /\ ch_next = Cardinality(HandleSprites) + 1
    /\ ch_before = <<>>
    /\ ch_commands = 0
    /\ ch_module \in {"handle", "canvas::handle"}
    /\ ch_pc = "started"
    /\ MinkIdle /\ FillIdle /\ OrgIdle /\ ShapeIdle /\ RoundIdle
    /\ PickIdle /\ CamIdle /\ ObserveIdle /\ RunOnceIdle
    /\ GizmoIdle

\* commands.queue(handle::spawn_control_handle(target_entity)), applied
HandleSpawn ==
    /\ ch_pc # "panicked" /\ ch_commands < MaxCommands
    /\ \E sprite_id \in HandleSprites :
           LET w == IF ch_module = "handle"
                    THEN handle_spawn_control_handle(HandleState, sprite_id)
                    ELSE spawn_control_handle(HandleState, sprite_id)
           IN /\ HandleSet(w)
              /\ ch_pc' = IF w.panicked THEN "panicked" ELSE "spawned"
    /\ UNCHANGED <<mk_vars, fill_vars, org_vars, sh_vars, vx_vars, pk_vars,
                 cam_vars, ob_vars, ro_vars, gz_vars>>

\* commands.queue(handle::despawn_control_handle) or, in main.rs, the
\* click on the window, applied
HandleDespawn ==
    /\ ch_pc # "panicked" /\ ch_commands < MaxCommands
    /\ LET w == IF ch_module = "handle"
                THEN handle_click_window(HandleState)
                ELSE despawn_control_handle(HandleState)
       IN /\ HandleSet(w)
          /\ ch_pc' = IF w.panicked THEN "panicked" ELSE "despawned"
    /\ UNCHANGED <<mk_vars, fill_vars, org_vars, sh_vars, vx_vars, pk_vars,
                 cam_vars, ob_vars, ro_vars, gz_vars>>

HandleNext == HandleSpawn \/ HandleDespawn

SpecHandle == HandleInit /\ [][HandleNext]_vars

----------------------------------------------------------------------------
(* threads queueing gizmo commands while the PostUpdate system ticks *)

\* the thread of the system and the threads calling debug_gizmo
GizmoSystem == 1
GizmoCallers == {2, 3}
GizmoThreads == {GizmoSystem} \cup GizmoCallers

\* time.delta() of a frame, in seconds
GizmoDeltas == {0, 10, 20, 40}

GizmoInit ==
    /\ gz_commands = <<>> /\ gz_lock = <<>>
    /\ gz_pc = [t \in GizmoThreads |-> "idle"]
    /\ gz_next = 1 /\ gz_before = <<>> /\ gz_delta = 0
    /\ gz_executed = <<>> /\ gz_removed = {}
    /\ gz_last = "started"
    /\ MinkIdle /\ FillIdle /\ OrgIdle /\ ShapeIdle /\ RoundIdle
    /\ PickIdle /\ CamIdle /\ ObserveIdle /\ RunOnceIdle /\ HandleIdle

\* GIZMO_COMMANDS.lock().unwrap(): taken by one thread at a time
GizmoLock ==
    /\ gz_lock = <<>>
    /\ \E t \in GizmoThreads :
           /\ gz_pc[t] = "idle"
           /\ t \in GizmoCallers => gz_next <= MaxGizmos
           /\ gz_lock' = <<t>>
           /\ gz_pc' = [gz_pc EXCEPT ![t] = "locked"]
    /\ UNCHANGED <<gz_commands, gz_next, gz_before, gz_delta, gz_executed,
                   gz_removed, gz_last>>
    /\ UNCHANGED <<mk_vars, fill_vars, org_vars, sh_vars, vx_vars, pk_vars,
                 cam_vars, ob_vars, ro_vars, ch_vars>>

\* debug_gizmo: the push, then the guard dropped
GizmoQueue ==
    /\ \E t \in GizmoCallers :
           /\ gz_pc[t] = "locked"
           /\ gz_pc' = [gz_pc EXCEPT ![t] = "idle"]
    /\ gz_commands' = debug_gizmo(gz_commands, gz_next)
    /\ gz_next' = gz_next + 1
    /\ gz_before' = gz_commands
    /\ gz_lock' = <<>>
    /\ gz_last' = "queued"
    /\ UNCHANGED <<gz_delta, gz_executed, gz_removed>>
    /\ UNCHANGED <<mk_vars, fill_vars, org_vars, sh_vars, vx_vars, pk_vars,
                 cam_vars, ob_vars, ro_vars, ch_vars>>

\* execute_gizmo_commands: the retain_mut, then the guard dropped
GizmoTick ==
    /\ gz_pc[GizmoSystem] = "locked"
    /\ \E delta \in GizmoDeltas :
           LET done == execute_gizmo_commands(gz_commands, delta)
           IN /\ gz_commands' = done.commands
              /\ gz_executed' = done.executed
              /\ gz_removed' = gz_removed
                     \cup ({gz_commands[i][2] : i \in DOMAIN gz_commands}
                           \ {done.commands[i][2] :
                                  i \in DOMAIN done.commands})
              /\ gz_delta' = delta
    /\ gz_before' = gz_commands
    /\ gz_pc' = [gz_pc EXCEPT ![GizmoSystem] = "idle"]
    /\ gz_lock' = <<>>
    /\ gz_last' = "ticked"
    /\ UNCHANGED gz_next
    /\ UNCHANGED <<mk_vars, fill_vars, org_vars, sh_vars, vx_vars, pk_vars,
                 cam_vars, ob_vars, ro_vars, ch_vars>>

GizmoNext == GizmoLock \/ GizmoQueue \/ GizmoTick

SpecGizmo == GizmoInit /\ [][GizmoNext]_vars

----------------------------------------------------------------------------
(* Claims about fill *)

\* the NFP vertices, of every placed shape, that clear every grown obstacle
AcceptedVertices ==
    LET grown == OffsetAll(placed_shapes, fill_offset)
    IN {v \in UNION {
              Elements(NfpVertices(placed_shapes[k], shape_to_place,
                                   fill_offset, fill_div)) :
              k \in 1..Len(placed_shapes)} :
          ~FillInside(ShapePosition(v, shape_to_place.edges), grown)}

\* C1: a shape returned by fill does not overlap any placed shape grown
\* outward by the gap
C1_ResultClearsGrownPlaced ==
    fill_pc = "returned" =>
        \A k \in 1..Len(placed_shapes) :
            ~is_overlapping(fill_result,
                            offset(placed_shapes[k], fill_offset))

C1_Witness ==
    /\ fill_pc = "returned"
    /\ Len(placed_shapes) = 2
    /\ fill_candidates # <<>>
    /\ Cardinality(AcceptedVertices) < 8 * unwrap_or(fill_div, 1)

\* C3: the returned translation is at least as near to the nominal
\* translation as every accepted candidate of every placed shape
C3_ResultIsNearestAccepted ==
    fill_pc = "returned" =>
        \A v \in AcceptedVertices :
            NotFarther(fill_result.translation, v,
                       shape_to_place.translation)

\* the result is a vertex around the second obstacle and not around the first
C3_Witness ==
    /\ fill_pc = "returned"
    /\ Len(placed_shapes) = 2
    /\ fill_result.translation \notin
           Elements(NfpVertices(placed_shapes[1], shape_to_place,
                                fill_offset, fill_div))
    /\ \E v \in AcceptedVertices :
           ~NotFarther(v, fill_result.translation,
                       shape_to_place.translation)

IsSquare(edges) == \E w \in 1..200 : edges = Rect(w, w)
Side(edges) == edges[1][1]

\* one square obstacle at the origin, a smaller square far out on the
\* diagonal of the positive quadrant, a positive gap, subdivision 2
DiagonalCase ==
    /\ Len(placed_shapes) = 1
    /\ placed_shapes[1].translation = ZERO
    /\ IsSquare(placed_shapes[1].edges)
    /\ IsSquare(shape_to_place.edges)
    /\ Side(shape_to_place.edges) < Side(placed_shapes[1].edges)
    /\ shape_to_place.translation[1] = shape_to_place.translation[2]
    /\ shape_to_place.translation[1] >
           Side(placed_shapes[1].edges) + Side(shape_to_place.edges)
    /\ fill_offset > 0
    /\ fill_div = <<2>>

\* C6: in the diagonal case fill returns the gap-offset NFP corner of the
\* positive quadrant, both coordinates strictly positive
C6_DiagonalCorner ==
    (fill_pc = "returned" /\ DiagonalCase) =>
        LET half == (Side(placed_shapes[1].edges)
                     + Side(shape_to_place.edges)) \div 2
        IN /\ fill_result.translation[1] > 0
           /\ fill_result.translation[2] > 0
           /\ fill_result.translation =
                  <<half + fill_offset, half + fill_offset>>

----------------------------------------------------------------------------
(* Claims about the organize handler *)

C4_OrganizeNeverCrashes == org_pc # "panicked"

----------------------------------------------------------------------------
(* Claims about minkowski_sum *)

\* u and v point the same way
SameDirection(u, v) == perp_dot(u, v) = 0 /\ dot(u, v) > 0

NoSharedDirection(a, b) ==
    \A k \in 1..Len(a) : \A l \in 1..Len(b) : ~SameDirection(a[k], b[l])

\* the sum of the edges of a polygon that point the way d points
RECURSIVE DirectionSum(_, _, _)
DirectionSum(edges, k, d) ==
    IF k = 0 THEN ZERO
    ELSE VAdd(DirectionSum(edges, k - 1, d),
              IF SameDirection(edges[k], d) THEN edges[k] ELSE ZERO)

\* r is the Minkowski sum of a and b: closed, turning left all the way
\* round, and along every direction as long as a and b together
IsMinkowskiSum(a, b, r) ==
    /\ SumTo(r, Len(r)) = ZERO
    /\ \A k \in 1..Len(r) : perp_dot(r[k], r[NextIndex(k, Len(r))]) >= 0
    /\ \A d \in Elements(a) \cup Elements(b) \cup Elements(r) :
           DirectionSum(r, Len(r), d) =
               VAdd(DirectionSum(a, Len(a), d), DirectionSum(b, Len(b), d))

\* C7: what minkowski_sum returns is the Minkowski sum of its arguments
C7_ReturnsMinkowskiSum ==
    mk_pc = "returned" => IsMinkowskiSum(mk_a, mk_b, mk_edges)

IsRect(edges) ==
    /\ Len(edges) = 4
    /\ edges[1][1] > 0 /\ edges[2][2] > 0
    /\ edges = Rect(edges[1][1], edges[2][2])

\* C8: the sum of two axis-aligned rectangles is the four edges
\* (w1+w2, 0), (0, h1+h2), (-(w1+w2), 0), (0, -(h1+h2)), in that order
C8_RectangleSum ==
    (mk_pc = "returned" /\ IsRect(mk_a) /\ IsRect(mk_b)) =>
        mk_edges = Rect(mk_a[1][1] + mk_b[1][1], mk_a[2][2] + mk_b[2][2])

\* the first case of tests::test_minkowski_sum
C8_Witness ==
    /\ mk_pc = "returned"
    /\ mk_a = Rect(16, 12) /\ mk_b = Rect(8, 4)
    /\ mk_edges = << <<24, 0>>, <<0, 16>>, <<-24, 0>>, <<0, -16>> >>

\* C9: on undivided polygons of m and n edges that share no edge
\* direction the loop pushes no more than m + n vertices and the sum
\* returned has m + n edges
C9_SumHasAllEdges ==
    (mk_pc \in {"loop", "returned"} /\ mk_div = 1
     /\ NoSharedDirection(mk_a, mk_b)) =>
        /\ Len(mk_result) <= Len(mk_a) + Len(mk_b)
        /\ mk_pc = "returned" => Len(mk_edges) = Len(mk_a) + Len(mk_b)

\* C10: on polygons of m and n edges, both divided in 2, that share no
\* edge direction, the loop pushes no more than 2m + 2n vertices and the
\* sum returned is the undivided sum with every edge halved and doubled
C10_DividedSum ==
    (mk_pc \in {"loop", "returned"} /\ mk_div = 2
     /\ NoSharedDirection(mk_base_a, mk_base_b)) =>
        /\ Len(mk_result) <= 2 * Len(mk_base_a) + 2 * Len(mk_base_b)
        /\ mk_pc = "returned" =>
              /\ Len(mk_edges) = 2 * Len(mk_base_a) + 2 * Len(mk_base_b)
              /\ mk_edges = divide(minkowski_sum(mk_base_a, mk_base_b), 2)

----------------------------------------------------------------------------
(* Claims about ShapePosition *)

\* the edge-normal axes of a shape
Axes(s) == {perp(e) : e \in Elements(s.edges)}

\* the projection of the vertex set of s on the axis n
Projection(s, n) == {dot(v, n) : v \in Elements(vertices(s))}

\* the least interval round P meets the least interval round Q
IntervalsMeet(P, Q) ==
    /\ \E x \in P : \E y \in Q : x <= y
    /\ \E x \in P : \E y \in Q : y <= x

\* four edges along the axes that close: an axis-aligned rectangle
AxisAligned(edges) ==
    /\ Len(edges) = 4
    /\ SumTo(edges, 4) = ZERO
    /\ \A k \in 1..4 : edges[k] # ZERO /\ (edges[k][1] = 0 \/ edges[k][2] = 0)
    /\ \A k \in 1..4 : dot(edges[k], edges[NextIndex(k, 4)]) = 0

\* the width (c = 1) or height (c = 2) of an axis-aligned rectangle
Extent(edges, c) ==
    CHOOSE x \in {Abs(edges[k][c]) : k \in 1..4} :
        \A k \in 1..4 : x >= Abs(edges[k][c])

\* the intervals of two rectangles along coordinate c intersect
BoxesMeet(a, b, c) ==
    2 * Abs(a.translation[c] - b.translation[c])
        <= Extent(a.edges, c) + Extent(b.edges, c)

\* C11: is_overlapping is true exactly when the projections of the two
\* vertex sets meet on every edge-normal axis of both shapes; for two
\* axis-aligned rectangles that is when their x-intervals and their
\* y-intervals intersect, touching included
C11_OverlapIffProjectionsMeet ==
    sh_pc = "tested" =>
        /\ sh_overlap <=>
              \A n \in Axes(sh_self) \cup Axes(sh_other) :
                  IntervalsMeet(Projection(sh_self, n),
                                Projection(sh_other, n))
        /\ (AxisAligned(sh_self.edges) /\ AxisAligned(sh_other.edges)) =>
              (sh_overlap <=> (BoxesMeet(sh_self, sh_other, 1)
                               /\ BoxesMeet(sh_self, sh_other, 2)))

\* two rectangles that merely touch along x are reported as overlapping
C11_Witness ==
    /\ sh_pc = "tested"
    /\ AxisAligned(sh_self.edges) /\ AxisAligned(sh_other.edges)
    /\ 2 * Abs(sh_self.translation[1] - sh_other.translation[1])
           = Extent(sh_self.edges, 1) + Extent(sh_other.edges, 1)
    /\ BoxesMeet(sh_self, sh_other, 2)
    /\ sh_overlap

\* C12: is_overlapping gives the same answer whichever of the two shapes
\* it is called on
C12_OverlapSymmetric ==
    sh_pc = "tested" => (sh_overlap = sh_overlap_rev)

\* the axes of self alone do not separate the shapes and those of other do
C12_Witness ==
    /\ sh_pc = "tested"
    /\ sh_self.edges # sh_other.edges
    /\ ~sh_overlap /\ ~sh_overlap_rev
    /\ \A n \in Axes(sh_self) :
           IntervalsMeet(Projection(sh_self, n), Projection(sh_other, n))

\* the edge list closes
Closed(edges) == SumTo(edges, Len(edges)) = ZERO

\* v lies at least width beyond the line of edge e through the point p,
\* on the side the outward normal of e points to
BeyondEdge(v, p, e, width) ==
    dot(VSub(v, p), VNeg(perp(e))) >= width * length(e)

\* the least (sel = 1) or greatest (sel = 2) coordinate c of the vertices
Bound(vs, c, sel) ==
    LET xs == Collect([k \in 1..Len(vs) |-> vs[k][c]])
    IN IF sel = 1 THEN SeqMin(xs) ELSE SeqMax(xs)

\* C15: after offset(w) on a closed shape every vertex lies at least w
\* beyond both original edges that meet at the corner it came from, along
\* their outward normals; an axis-aligned rectangle has every side moved
\* out by exactly w
C15_OffsetMovesOutByWidth ==
    (sh_pc = "offset" /\ Closed(sh_before.edges)) =>
        LET len == Len(sh_before.edges)
            was == vertices(sh_before)
            now == vertices(sh_self)
        IN /\ \A k \in 1..len : \E m \in 1..len :
                  /\ BeyondEdge(now[k], was[m], sh_before.edges[m], sh_width)
                  /\ BeyondEdge(now[k], was[m],
                                sh_before.edges[NextIndex(m, len)], sh_width)
           /\ AxisAligned(sh_before.edges) =>
                  \A c \in {1, 2} :
                      /\ Bound(now, c, 1) = Bound(was, c, 1) - sh_width
                      /\ Bound(now, c, 2) = Bound(was, c, 2) + sh_width

----------------------------------------------------------------------------
(* Claims about vertices() under f32 rounding *)

\* C13: the vertex average of the points vertices() returns equals
\* translation exactly, whatever the edge list
C13_CentroidIsTranslation ==
    vx_pc = "centroid" => vx_centroid = vx_shape.translation

\* the largest magnitude among the coordinates the two calls meet: the
\* local vertices, the translated vertices and the running sums of both
LargestMet(s) ==
    LET lv == local_vertices_f32(s.edges)
        vs == vertices_f32(s)
        n == Len(s.edges)
        met == UNION { { lv[k], FAdd(lv[k], s.translation), vs[k],
                         FSumTo(lv, k), FSumTo(vs, k) } : k \in 1..n }
        mags == {Abs(v[1]) : v \in met} \cup {Abs(v[2]) : v \in met}
    IN CHOOSE m \in mags : \A x \in mags : x <= m

\* C13 as amended: the vertex average of the points vertices() returns
\* equals translation up to rounding, each coordinate to within three
\* steps of the f32 spacing at the largest coordinate met
C13_CentroidNearTranslation ==
    vx_pc = "centroid" =>
        \A c \in {1, 2} :
            Abs(vx_centroid[c] - vx_shape.translation[c])
                <= 3 * UlpOf(LargestMet(vx_shape))

\* a triangle whose centroid comes back one rounding step off translation
C13_Witness ==
    /\ vx_pc = "centroid"
    /\ Len(vx_shape.edges) = 3
    /\ vx_centroid # vx_shape.translation
    /\ vx_vertices = vertices_f32(vx_shape)

----------------------------------------------------------------------------
(* Claims about the picking backend *)

\* the ray and the camera a written hit list belongs to
RayOf(o) == pk_rays[o.ray]
CameraOf(o) == PickCameras[RayOf(o).camera]

\* the entities of a hit list
Listed(o) == {o.picks[n].entity : n \in 1..Len(o.picks)}

\* the ray meets the plane of the handle nearer than radius to its centre
Reaches(ray, h) ==
    /\ ~h.edge_on
    /\ h.translation[3] < ray.origin[3]
    /\ (ray.origin[1] - h.translation[1]) * (ray.origin[1] - h.translation[1])
       + (ray.origin[2] - h.translation[2]) * (ray.origin[2] - h.translation[2])
           < h.radius * h.radius

\* no Pickable component, or one that says should_block_lower
StopsLower(h) == h.pickable = <<>> \/ h.pickable[1].should_block_lower

\* the mask of the handle meets the mask of the camera, layer 0 standing
\* for an absent mask
OnLayerOf(h, cam) ==
    (IF h.render_layers = <<>> THEN {0} ELSE h.render_layers[1])
    \cap (IF cam.render_layers = <<>> THEN {0} ELSE cam.render_layers[1])
        # {}

\* C16: of the candidates of a ray, taken in order, the hit list holds
\* those that are hit up to and including the first hit one that blocks
\* lower ones; a hit that does not block and a miss stop nothing
C16_StopsAtFirstBlockingHit ==
    \A i \in 1..Len(pk_output) :
        LET o == pk_output[i]
            cands == SelectSeq(pk_sorted,
                               LAMBDA e : OnLayerOf(e.shape, CameraOf(o)))
            stops(k) == Reaches(RayOf(o), cands[k].shape)
                        /\ StopsLower(cands[k].shape)
        IN \A k \in 1..Len(cands) :
               cands[k].entity \in Listed(o) <=>
                   /\ Reaches(RayOf(o), cands[k].shape)
                   /\ \A l \in 1..(k - 1) : ~stops(l)

\* a list of a non-blocking hit and a blocking hit, with a miss in front
\* of them and a hit behind them that is not listed
C16_Witness ==
    \E i \in 1..Len(pk_output) :
        LET o == pk_output[i]
        IN /\ Len(o.picks) = 2
           /\ ~StopsLower(pk_handles[o.picks[1].entity])
           /\ StopsLower(pk_handles[o.picks[2].entity])
           /\ \E k \in 1..Len(pk_sorted) :
                  /\ OnLayerOf(pk_sorted[k].shape, CameraOf(o))
                  /\ Reaches(RayOf(o), pk_sorted[k].shape)
                  /\ pk_sorted[k].entity \notin Listed(o)
           /\ ~Reaches(RayOf(o), pk_sorted[1].shape)

\* the world z of the n-th entry of a hit list
ZOf(o, n) == pk_handles[o.picks[n].entity].translation[3]

\* the stored handles a ray of a camera can hit at all
Eligible(o) ==
    {k \in 1..Len(pk_handles) :
        /\ PickKeeps(pk_handles[k], pk_require_markers)
        /\ OnLayerOf(pk_handles[k], CameraOf(o))
        /\ Reaches(RayOf(o), pk_handles[k])}

\* C17: every hit list runs front to back, z never increasing along it,
\* and starts with a hit candidate of the greatest z, wherever the
\* entities are stored
C17_FrontToBack ==
    \A i \in 1..Len(pk_output) :
        LET o == pk_output[i]
        IN /\ \A n \in 1..Len(o.picks) : \A m \in n..Len(o.picks) :
                  ZOf(o, n) >= ZOf(o, m)
           /\ Eligible(o) # {} =>
                  /\ o.picks # <<>>
                  /\ \A k \in Eligible(o) :
                         ZOf(o, 1) >= pk_handles[k].translation[3]

\* two entries listed against the order in which they are stored
C17_Witness ==
    \E i \in 1..Len(pk_output) :
        LET o == pk_output[i]
        IN /\ Len(o.picks) >= 2
           /\ o.picks[1].entity > o.picks[2].entity
           /\ ZOf(o, 1) > ZOf(o, 2)

\* C18: a candidate whose mask does not meet the mask of the camera is in
\* no hit list of that camera, and a hit candidate behind it is listed
\* unless a candidate the camera does see blocks it
C18_OtherLayersIgnored ==
    \A i \in 1..Len(pk_output) :
        LET o == pk_output[i]
            seen(k) == OnLayerOf(pk_sorted[k].shape, CameraOf(o))
            hit(k) == Reaches(RayOf(o), pk_sorted[k].shape)
        IN /\ \A n \in 1..Len(o.picks) :
                  OnLayerOf(pk_handles[o.picks[n].entity], CameraOf(o))
           /\ \A p \in 1..Len(pk_sorted) : \A q \in (p + 1)..Len(pk_sorted) :
                  (/\ ~seen(p)
                   /\ seen(q) /\ hit(q)
                   /\ \A l \in 1..(q - 1) :
                          ~(seen(l) /\ hit(l)
                            /\ StopsLower(pk_sorted[l].shape)))
                  => pk_sorted[q].entity \in Listed(o)

\* a blocking handle on another layer is hit in front of a listed one
C18_Witness ==
    \E i \in 1..Len(pk_output) :
        LET o == pk_output[i]
        IN \E p \in 1..Len(pk_sorted) : \E q \in (p + 1)..Len(pk_sorted) :
               /\ ~OnLayerOf(pk_sorted[p].shape, CameraOf(o))
               /\ Reaches(RayOf(o), pk_sorted[p].shape)
               /\ StopsLower(pk_sorted[p].shape)
               /\ pk_sorted[q].entity \in Listed(o)
               /\ CameraOf(o).render_layers # <<>>


----------------------------------------------------------------------------
(* Claims about the camera translator *)

\* C19: every Transform that to_control or to_main returns has a
\* translation whose z is 0, whatever the z of the transform handed in and
\* of the two cameras.
C19_ReturnedZIsZero ==
    (cam_pc \in {"to_control", "to_main"} /\ cam_result # <<>>)
        => cam_result[1].translation[3] = 0

\* to_main has returned a Transform for a transform and a main camera that
\* are both off the z = 0 plane
C19_Witness ==
    /\ cam_pc = "to_main"
    /\ cam_result # <<>>
    /\ cam_transform.translation[3] # 0
    /\ cam_main.transform.translation[3] # 0

\* the two cameras have the same transform and the same projection
IdenticalCameras == cam_main = cam_control

\* C20 as stated: with identical cameras the transform that to_control
\* returns has, for every main_transform, the translation, the rotation and
\* the scale of main_transform.
C20_SameTransform ==
    (cam_pc = "to_control" /\ IdenticalCameras /\ cam_result # <<>>)
        => /\ cam_result[1].translation = cam_transform.translation
           /\ cam_result[1].rotation
                  = to_scale_rotation_translation(cam_transform).rotation
           /\ cam_result[1].scale
                  = to_scale_rotation_translation(cam_transform).scale

\* C20 amended: with identical cameras every transform that to_control
\* returns has the x and y of the translation, the rotation and the scale
\* of main_transform, and a translation whose z is 0.
C20_SameInThePlane ==
    (cam_pc = "to_control" /\ IdenticalCameras /\ cam_result # <<>>)
        => /\ truncate(cam_result[1].translation)
                  = truncate(cam_transform.translation)
           /\ cam_result[1].translation[3] = 0
           /\ cam_result[1].rotation
                  = to_scale_rotation_translation(cam_transform).rotation
           /\ cam_result[1].scale
                  = to_scale_rotation_translation(cam_transform).scale

\* to_control has returned under identical cameras that are panned and
\* zoomed, for a turned main_transform off the z = 0 plane
C20_Witness ==
    /\ cam_pc = "to_control"
    /\ IdenticalCameras
    /\ cam_result # <<>>
    /\ cam_main.transform.scale # ONE
    /\ truncate(cam_main.transform.translation) # ZERO
    /\ cam_transform.translation[3] # 0
    /\ to_scale_rotation_translation(cam_transform).rotation # 0

----------------------------------------------------------------------------
(* Claims about Observe *)

\* the entities the hooks spawned for the watched entity that are alive
SpawnedAlive == ob_alive \ {Watched}

\* the entity holds an Observe built by Observe::new
HoldsObserve == ob_component # <<>> /\ ob_held # <<>>

C22_RunsTheHeldSystemOnce ==
    ob_pc = "triggered" =>
        ob_ran = (IF HoldsObserve THEN <<ob_held[1]>> ELSE <<>>)

\* observer_system2 alone ran after it replaced observer_system
C22_Witness ==
    /\ ob_pc = "triggered"
    /\ ob_ran = <<"observer_system2">>
    /\ ob_next >= Watched + 3

----------------------------------------------------------------------------
(* Claims about run_once_at *)

\* the latest evaluation was the one with 0-based index n
RunOnceAtIndex == ro_evals = U32Succ(ro_n)

\* C23: every evaluation of run_once_at(n) returns: true when it is the
\* one with 0-based index n, false otherwise; so at most one evaluation
\* has returned true, and exactly one once the evaluation with index n is
\* made; from then on the counter exceeds n.
C23_TrueAtIndexNOnly ==
    /\ ro_pc # "panicked"
    /\ ro_pc = "evaluated" => ro_returned = <<RunOnceAtIndex>>
    /\ ro_trues = (IF U32Less(ro_n, ro_evals) THEN 1 ELSE 0)
    /\ U32Less(ro_n, ro_evals) => U32Less(ro_n, ro_count)

----------------------------------------------------------------------------
(* Claims about the merge loop of minkowski_sum *)

\* C24: the merge loop terminates on closed convex CCW polygons of any edge
\* counts: while the loop runs, the iteration about to be made consumes an
\* edge of a or of b, and when the call has returned every edge of a and
\* every edge of b has been consumed once.
C24_MergeLoopTerminates ==
    /\ mk_pc = "loop" => ~MinkStuck(mk_a, mk_b, MinkState)
    /\ mk_pc = "returned" =>
           /\ mk_i_inc = Len(mk_a)
           /\ mk_j_inc = Len(mk_b)

----------------------------------------------------------------------------
(* Claims about the no-fit polygon of fill *)

\* twice the distance between the intervals of two rectangles along
\* coordinate c, 0 when the intervals meet
TwiceApart(a, b, c) ==
    LET d == 2 * Abs(a.translation[c] - b.translation[c])
                 - Extent(a.edges, c) - Extent(b.edges, c)
    IN IF d > 0 THEN d ELSE 0

\* four times the square of the distance between two axis-aligned
\* rectangles
FourDistanceSquared(a, b) ==
    TwiceApart(a, b, 1) * TwiceApart(a, b, 1)
        + TwiceApart(a, b, 2) * TwiceApart(a, b, 2)

\* shape_to_place moved to a vertex of the gap-offset no-fit polygon of
\* the k-th placed shape
AtNfpVertices(k) ==
    LET nfp_vertices == NfpVertices(placed_shapes[k], shape_to_place,
                                    fill_offset, fill_div)
    IN {ShapePosition(nfp_vertices[n], shape_to_place.edges) :
            n \in 1..Len(nfp_vertices)}

\* C25: for each placed shape p and every subdivision, shape_to_place put
\* at any vertex of the gap-offset no-fit polygon of p is at the distance
\* gap from p, neither closer nor farther.
C25_NfpVerticesAtGap ==
    fill_pc # "idle" =>
        \A k \in 1..Len(placed_shapes) :
            \A translated \in AtNfpVertices(k) :
                FourDistanceSquared(translated, placed_shapes[k])
                    = 4 * fill_offset * fill_offset

----------------------------------------------------------------------------
(* Claims about the drift of offset *)

\* the vertices of s, each moved by width times the sum of the outward
\* unit normals of its two adjacent edges
MovedOut(s, width) ==
    LET vs == vertices(s)
        len == Len(s.edges)
    IN {VAdd(vs[i], NormalsTimes(OutwardNormal(s.edges[i]),
                                 OutwardNormal(s.edges[NextIndex(i, len)]),
                                 width)) : i \in 1..len}

\* C26: offset does not drift the shape: after offset(width) the points of
\* vertices() are the vertices before the call, each moved by width times
\* the sum of the outward unit normals of its two adjacent edges, for
\* every closed convex shape, centrally symmetric or not.
C26_OffsetDoesNotDrift ==
    (sh_pc = "offset" /\ Closed(sh_before.edges)) =>
        Elements(vertices(sh_self)) = MovedOut(sh_before, sh_width)

----------------------------------------------------------------------------
(* Claims about EdgeVectors *)

\* C27: local_vertices of the n edges of a yields n vertices, the running
\* sums of the edges from the origin, the first of them the origin (0, 0)
\* itself: the k-th vertex yielded is the sum of the k - 1 edges before it.
C27_LocalVerticesStartAtOrigin ==
    mk_pc # "idle" =>
        LET lv == local_vertices(mk_a)
        IN /\ Len(lv) = Len(mk_a)
           /\ lv[1] = ZERO
           /\ \A k \in 1..Len(lv) : lv[k] = SumTo(mk_a, k - 1)

\* subdivision counts that divide every coordinate of the undivided
\* polygons and of their sums
DivideCounts == {1, 2, 4}

\* divided holds, for every edge of edges in order, n copies of the n-th
\* part of it; the vertices of edges are still vertices of divided, and the
\* sum of the edges is the same
DividedInPlace(edges, divided, n) ==
    /\ Len(divided) = n * Len(edges)
    /\ \A k \in 1..Len(edges) :
           \A c \in 1..n : VMul(divided[(k - 1) * n + c], n) = edges[k]
    /\ \A k \in 1..Len(edges) : SumTo(divided, k * n) = SumTo(edges, k)
    /\ SumTo(divided, Len(divided)) = SumTo(edges, Len(edges))

----------------------------------------------------------------------------
(* Claims about the control handle *)

\* the children spawn_control_handle gives the handle id
HandleFamily(id) ==
    IF ch_module = "handle" THEN HandleCircles(id) ELSE HandleChildren(id)

\* C30: after any sequence of spawn_control_handle(sprite) and
\* despawn_control_handle commands, each applied with its queued commands
\* flushed, at most one ControlHandle entity is alive; the
\* CurrentControlHandle resource exists if and only if one is alive and
\* then names it; the only children alive are those of that handle, so a
\* spawn for a new sprite has despawned the previous handle together with
\* its corner and rotation children.
C30_OneControlHandle ==
    ch_pc \in {"started", "spawned", "despawned"} =>
        /\ Cardinality(ch_handles) <= 1
        /\ \A h \in ch_handles : h.id \in ch_alive
        /\ (ch_current # <<>>) <=> (ch_handles # {})
        /\ ch_current # <<>> => \A h \in ch_handles : h.id = ch_current[1]
        /\ ch_children = UNION {HandleFamily(h.id) : h \in ch_handles}
        /\ \A c \in ch_children : c.id \in ch_alive
        /\ ch_alive = HandleSprites \cup {h.id : h \in ch_handles}
                                    \cup {c.id : c \in ch_children}
        /\ ch_pc = "spawned" /\ ch_before # <<>> =>
               /\ ch_before[1].id \notin ch_alive
               /\ \A c \in HandleFamily(ch_before[1].id) :
                      c.id \notin ch_alive

\* a handle spawned for a new sprite while the handle of another sprite,
\* with its four corners and its rotation child, was the current one
C30_Witness ==
    /\ ch_pc = "spawned" /\ ch_module = "canvas::handle"
    /\ ch_before # <<>>
    /\ \E h \in ch_handles : h.sprite # ch_before[1].sprite
    /\ Cardinality(HandleFamily(ch_before[1].id)) = 5
    /\ ch_before[1].id \notin ch_alive

----------------------------------------------------------------------------
(* Claims about the gizmo command list *)

\* the commands of a list, in order
GizmoIds(commands) == [i \in DOMAIN commands |-> commands[i][2]]

\* the time on the timers of a list, in order
GizmoElapsed(commands) == [i \in DOMAIN commands |-> commands[i][1].elapsed]

\* the entries of the list before the latest tick whose timer that tick
\* left short of the timeout
GizmoUnfinished ==
    SelectSeq(gz_before,
              LAMBDA c : c[1].elapsed + gz_delta < GIZMO_TIMEOUT)

\* C29: a tick executes, once and in order, exactly the queued commands
\* whose timer it leaves short of 30 seconds, and keeps them in order with
\* the time added; a command whose timer reaches 30 seconds on a tick is
\* removed on that tick without being executed, and a removed command is
\* never in the list or executed again; queueing appends the new command
\* with a fresh timer and leaves the others as they were; the mutex is
\* held by one thread at a time.
C29_ExecutedUntilTimeout ==
    /\ Cardinality({t \in DOMAIN gz_pc : gz_pc[t] = "locked"}) <= 1
    /\ \A i \in DOMAIN gz_commands :
           /\ gz_commands[i][2] \notin gz_removed
           /\ gz_commands[i][1].elapsed < GIZMO_TIMEOUT
           /\ \A j \in DOMAIN gz_commands :
                  gz_commands[i][2] = gz_commands[j][2] => i = j
    /\ \A i \in DOMAIN gz_executed : gz_executed[i] \notin gz_removed
    /\ gz_last = "ticked" =>
           /\ gz_executed = GizmoIds(GizmoUnfinished)
           /\ GizmoIds(gz_commands) = GizmoIds(GizmoUnfinished)
           /\ GizmoElapsed(gz_commands)
                  = [i \in DOMAIN GizmoUnfinished |->
                         GizmoUnfinished[i][1].elapsed + gz_delta]
           /\ \A i \in DOMAIN gz_before :
                  gz_before[i][1].elapsed + gz_delta >= GIZMO_TIMEOUT =>
                      gz_before[i][2] \in gz_removed
    /\ gz_last = "queued" =>
           /\ Len(gz_commands) = Len(gz_before) + 1
           /\ SubSeq(gz_commands, 1, Len(gz_before)) = gz_before
           /\ gz_commands[Len(gz_commands)][1].elapsed = 0
           /\ gz_commands[Len(gz_commands)][2] = gz_next - 1

\* a tick that removes the oldest command of three, whose timer finishes,
\* and executes the other two, queued later, in order
C29_Witness ==
    /\ gz_last = "ticked"
    /\ Len(gz_before) = 3 /\ Len(gz_commands) = 2
    /\ gz_before[1][2] \in gz_removed
    /\ gz_executed = <<gz_before[2][2], gz_before[3][2]>>
    /\ gz_before[2][1].elapsed > gz_before[3][1].elapsed
    /\ gz_delta > 0

====
